---- MODULE Spec2Model ----
(***************************************************************************)
(* Blog content API: the two-store write pipelines of the blog controller  *)
(* (src/src/controllers/blogController.js) over the record store (prisma)  *)
(* and the blob store (src/src/services/s3Service.js).                     *)
(*                                                                         *)
(* Strings that the code takes apart are modelled as sequences of their    *)
(* "/"-separated segments: "s3://bkt/blogs/1/text/html" is                 *)
(* <<"s3:", "", "bkt", "blogs", "1", "text", "html">>.  A file name is the *)
(* sequence of its "."-separated parts.  A document is a sequence of tags. *)
(***************************************************************************)
EXTENDS Integers, Sequences, FiniteSets, TLC

\* ---------------------------------------------------------------- bounds
\* concurrent request slots
MaxReq == 2
\* requests started in one behaviour
MaxRequests == 2
\* rows the autoincrement key hands out
MaxId == 1

\* ------------------------------------------------------- configuration
\* process.env.S3_BUCKET
S3_BUCKET == "bkt"
\* process.env.S3_CDN_URL, "https://cdn.example.com"
S3_CDN_URL == <<"https:", "", "cdn.example.com">>

Null == <<>>
NoRow == [none |-> TRUE]
NoFile == [none |-> TRUE]
PLACEHOLDER == <<"placeholder">>
\* no codec or issuer call made yet
NoCall == [fn |-> "none"]
\* no view increment in flight: the empty bag of record ids
NoIncrements == <<>>

\* JS falsiness of a string-or-null value: null and '' are both falsy
IsFalsy(u) == u = Null \/ u = <<"">>

\* ------------------------------------------------------------ documents
ALLOWED_TAGS == {"h1", "p", "a", "img"}

StripWrapper(doc) == SelectSeq(doc, LAMBDA t : t \notin {"<html>", "</html>"})

IsAllowedTag(t) == t \in ALLOWED_TAGS

\* DOMPurify.sanitize(html, {ALLOWED_TAGS, WHOLE_DOCUMENT: true}): drops the
\* tags off the allow-list and returns a whole document; '' for empty input
sanitizeHTML(htmlContent) ==
    IF htmlContent = <<>>
    THEN <<>>
    ELSE <<"<html>">> \o SelectSeq(StripWrapper(htmlContent), IsAllowedTag) \o <<"</html>">>

sanitizeHTMLToBuffer(htmlContent) == sanitizeHTML(htmlContent)

\* ---------------------------------------------------------------- files
DOCX == <<"application", "vnd.openxmlformats-officedocument.wordprocessingml.document">>
HTML == <<"text", "html">>

\* multer file objects of the 'content' field: buffer and mimetype
ContentFiles ==
    { [buffer |-> <<"h1", "script">>, mimetype |-> DOCX],
      [buffer |-> <<"p">>,            mimetype |-> HTML] }

\* multer file objects of the 'cover' field: buffer and originalname
CoverFiles ==
    { [buffer |-> <<"jpgbytes">>, originalname |-> <<"photo", "jpg">>],
      [buffer |-> <<"pngbytes">>, originalname |-> <<"banner", "png">>] }

\* req.body.title of an update
Titles == {"T2"}

\* path.extname: the last "."-part with its dot, '' when there is none or
\* when the only dot is the leading one
extname(name) ==
    IF Len(name) >= 2 /\ ~(Len(name) = 2 /\ name[1] = "")
    THEN "." \o name[Len(name)]
    ELSE ""

\* ----------------------------------------------------------- key codec
\* the provider's HTTPS URL of the object returned in place of the locator
CanonicalLocator_https(key) ==
    <<"https:", "", "bkt.s3.ap-south-1.amazonaws.com">> \o key

\* a locator written without the bucket: `s3://${key}`
CanonicalLocator_noBucket(key) == <<"s3:", "">> \o key

\* `s3://${S3_BUCKET}/${key}`, the value uploadFile returns
CanonicalLocator(key) == <<"s3:", "", S3_BUCKET>> \o key

\* `blogs/${blogId}/${originalFilename}`
uploadBlogContentKey(blogId, originalFilename) ==
    <<"blogs", ToString(blogId)>> \o originalFilename

\* `blogs/${blogId}/cover${extension}`
uploadBlogCoverImageKey(blogId, originalName) ==
    <<"blogs", ToString(blogId), "cover" \o extname(originalName)>>

IsAwsHost(seg) == seg \in {"bkt.s3.ap-south-1.amazonaws.com"}

IsPrefix(p, s) == Len(p) <= Len(s) /\ SubSeq(s, 1, Len(p)) = p

Tail_n(s, n) == SubSeq(s, n + 1, Len(s))

\* positions i whose segment ends in ".amazonaws.com" and is followed by "/"
\* and at least one more character
AwsMatches(url) ==
    { i \in 1..Len(url) : /\ IsAwsHost(url[i])
                          /\ Len(url) > i
                          /\ Tail_n(url, i) # <<"">> }

Min(S) == CHOOSE x \in S : \A y \in S : x <= y

extractKeyFromUrl(url) ==
    IF IsFalsy(url) THEN Null
    ELSE IF Len(url) >= 3 /\ url[1] = "s3:" /\ url[2] = ""
         \* url.replace(/^s3:\/\/[^/]+\//, ''): unchanged when the pattern
         \* does not match (empty bucket, or nothing after the bucket)
         THEN IF url[3] # "" /\ Len(url) >= 4 THEN Tail_n(url, 3) ELSE url
    ELSE IF IsPrefix(S3_CDN_URL, url)
         \* url.replace(`${S3_CDN_URL}/`, '')
         THEN IF Len(url) > Len(S3_CDN_URL) THEN Tail_n(url, Len(S3_CDN_URL)) ELSE url
    ELSE IF AwsMatches(url) # {} THEN Tail_n(url, Min(AwsMatches(url)))
    ELSE Null

\* ------------------------------------------------------------ blob store
\* the store is a function from the keys present to the bytes held
uploadFile(st, fileBuffer, key) ==
    [k \in (DOMAIN st) \cup {key} |-> IF k = key THEN fileBuffer ELSE st[k]]

\* DeleteObject that removes nothing
deleteFile_noop(st, key) == st

deleteFile(st, key) == [k \in (DOMAIN st) \ {key} |-> st[k]]

fileExists(st, key) == key \in DOMAIN st


\* the candidate keys deleteBlogFiles walks, in order: the key of the given
\* locator, or the legacy names when no locator is given
LegacyContentNames == <<"content.html", "content.md", "content.docx">>

imageExtensions == <<".jpg", ".jpeg", ".png", ".webp", ".gif", ".svg">>

deleteBlogFilesKeys(blogId, contentUrl, coverImageUrl) ==
    LET one(url) == IF IsFalsy(extractKeyFromUrl(url)) THEN <<>>
                    ELSE <<extractKeyFromUrl(url)>>
        contentKeys == [i \in 1..Len(LegacyContentNames) |->
                          <<"blogs", ToString(blogId), LegacyContentNames[i]>>]
        coverKeys == [i \in 1..Len(imageExtensions) |->
                          <<"blogs", ToString(blogId), "cover" \o imageExtensions[i]>>]
    IN  (IF ~IsFalsy(contentUrl) THEN one(contentUrl) ELSE contentKeys)
        \o (IF ~IsFalsy(coverImageUrl) THEN one(coverImageUrl) ELSE coverKeys)

\* ------------------------------------------------------------- state
VARIABLES
    rows,      \* record store: function from the ids present to their row
    nextId,    \* the autoincrement primary key
    store,     \* blob store: function from the keys present to their bytes
    reqs,      \* the request slots: each handler's position and locals
    started,   \* requests started so far
    detached,  \* view increments issued and not yet settled, per record id
    issued,    \* view increments issued so far, per record id
    call       \* the last call of a key codec or issuer function

vars == <<rows, nextId, store, reqs, started, detached, issued, call>>

Slots == 1..MaxReq

Max(a, b) == IF a >= b THEN a ELSE b

\* the ids a request may name: those handed out and those still to come
Ids == 1..Max(MaxId, nextId - 1)

Idle ==
    [op |-> "idle", pc |-> "idle", blogId |-> 0, slug |-> "", query |-> "",
     page |-> 0, limit |-> 0, results |-> <<>>, contentFile |-> NoFile,
     coverFile |-> NoFile, title |-> "", existing |-> NoRow,
     status |-> "", statusParam |-> "", request |-> NoRow,
     updateData |-> [title |-> "", slug |-> "", contentUrl |-> Null,
                     coverImageUrl |-> Null],
     sanitizedBuffer |-> <<>>, keys |-> <<>>, ki |-> 0, tags |-> {},
     content |-> <<>>, signFailed |-> <<>>,
     resp |-> 0, data |-> NoRow, log |-> <<>>, solo |-> TRUE]

Active(q) == q.pc \notin {"idle", "done"}

Free == { r \in Slots : ~Active(reqs[r]) }

\* a request arrives in the lowest free slot
Arrives(r) == /\ started < MaxRequests
              /\ r \in Free
              /\ \A s \in Free : r <= s

Entry(op, key, ok) == [op |-> op, key |-> key, ok |-> ok]

\* once the response is out the handler's locals are gone: a finished slot
\* is cleared by the next step of any request
Cleared(q) == IF q.pc = "done" THEN Idle ELSE q

\* the slot r after the step that starts its request; every other active
\* request is no longer alone
Begin(r, q) ==
    reqs' = [s \in Slots |->
               IF s = r THEN [q EXCEPT !.solo = \A t \in Slots \ {r} : ~Active(reqs[t])]
               ELSE IF Active(reqs[s]) THEN [reqs[s] EXCEPT !.solo = FALSE]
               ELSE Cleared(reqs[s])]

Step(r, q) == reqs' = [s \in Slots |-> IF s = r THEN q ELSE Cleared(reqs[s])]

\* res.status(code).json({... data})
Respond(q, code, data) == [q EXCEPT !.pc = "done", !.resp = code, !.data = data]

Logged(q, op, key, ok) == [q EXCEPT !.log = Append(@, Entry(op, key, ok))]

\* the row and the objects a completed createBlog of (cf, cov) leaves for id
CreatedRow(id, cf, cov) ==
    [title |-> "T1",
     contentUrl |-> CanonicalLocator(uploadBlogContentKey(id, cf.mimetype)),
     coverImageUrl |-> IF cov = NoFile THEN Null
                       ELSE CanonicalLocator(uploadBlogCoverImageKey(id, cov.originalname)),
     deletedAt |-> FALSE, views |-> 0]

CreatedStore(id, cf, cov) ==
    LET st == uploadFile(<<>>, sanitizeHTMLToBuffer(cf.buffer),
                         uploadBlogContentKey(id, cf.mimetype))
    IN  IF cov = NoFile THEN st
        ELSE uploadFile(st, cov.buffer, uploadBlogCoverImageKey(id, cov.originalname))

\* the service starts on an empty table, or on a table that holds one record
\* an earlier createBlog completed
Init ==
    /\ \/ /\ rows = <<>>
          /\ nextId = 1
          /\ store = <<>>
       \/ \E cf \in ContentFiles, cov \in CoverFiles \cup {NoFile} :
            /\ rows = [i \in {1} |-> CreatedRow(1, cf, cov)]
            /\ nextId = 2
            /\ store = CreatedStore(1, cf, cov)
    /\ reqs = [r \in Slots |-> Idle]
    /\ started = 0
    /\ detached = NoIncrements
    /\ issued = NoIncrements
    /\ call = NoCall

\* prisma.blog.findUnique({where: {id}})
findUnique(id) == IF id \in DOMAIN rows THEN rows[id] ELSE NoRow

\* prisma.blog.update({where: {id}, data}) on the row r
ApplyData(row, data) ==
    [row EXCEPT !.title = IF data.title # "" THEN data.title ELSE @,
                !.contentUrl = IF data.contentUrl # Null THEN data.contentUrl ELSE @,
                !.coverImageUrl = IF data.coverImageUrl # Null THEN data.coverImageUrl ELSE @]

\* the upload handed the raw request bytes instead of the sanitized buffer
UploadedContent_raw(contentFile) == contentFile.buffer

\* the bytes createBlog and updateBlog hand to the upload
UploadedContent(contentFile) == sanitizeHTMLToBuffer(contentFile.buffer)

\* ------------------------------------------------------------ createBlog
\* createBlog with the error swallowed: the pipeline runs on to the final
\* update and the placeholder stays
createBlog_catch_swallow(q, op, key) ==
    [Logged(q, op, key, FALSE) EXCEPT
       !.pc = "c_update",
       !.updateData.contentUrl = IF @ = Null THEN PLACEHOLDER ELSE @]

\* the catch block of createBlog: whatever was thrown, answer 500
createBlog_catch(q, op, key) == Respond(Logged(q, op, key, FALSE), 500, NoRow)

\* prisma.blog.create with the placeholder locator, then the sanitizer
createBlog(r) ==
    /\ Arrives(r)
    /\ nextId <= MaxId
    /\ \E cf \in ContentFiles, cov \in CoverFiles \cup {NoFile},
          failInsert \in BOOLEAN, failSanitize \in BOOLEAN :
        LET q0 == [Idle EXCEPT !.op = "createBlog", !.contentFile = cf,
                               !.coverFile = cov, !.title = "T1"]
            row == [title |-> "T1", contentUrl |-> PLACEHOLDER,
                    coverImageUrl |-> Null, deletedAt |-> FALSE, views |-> 0]
            q1 == Logged([q0 EXCEPT !.blogId = nextId], "create", Null, TRUE)
        IN  /\ ~(failInsert /\ failSanitize)
            /\ started' = started + 1
            /\ IF failInsert
               THEN /\ Begin(r, createBlog_catch(q0, "create", Null))
                    /\ UNCHANGED <<rows, nextId, store>>
               ELSE /\ rows' = [i \in (DOMAIN rows) \cup {nextId} |->
                                   IF i = nextId THEN row ELSE rows[i]]
                    /\ nextId' = nextId + 1
                    /\ UNCHANGED store
                    /\ IF failSanitize
                       THEN Begin(r, createBlog_catch(q1, "sanitize", Null))
                       ELSE Begin(r, [Logged(q1, "sanitize", Null, TRUE) EXCEPT
                                        !.sanitizedBuffer = UploadedContent(cf),
                                        !.pc = "c_put_content"])
    /\ UNCHANGED <<detached, issued, call>>

\* uploadBlogContent(sanitizedBuffer, blog.id, contentFile.mimetype): the
\* mimetype arrives in the originalFilename parameter
createBlog_uploadContent(r) ==
    LET q == reqs[r]
        key == uploadBlogContentKey(q.blogId, q.contentFile.mimetype)
    IN  /\ q.pc = "c_put_content"
        /\ \E fail \in BOOLEAN :
            /\ IF fail
               THEN /\ Step(r, createBlog_catch(q, "put_content", key))
                    /\ UNCHANGED store
               ELSE /\ store' = uploadFile(store, q.sanitizedBuffer, key)
                    /\ Step(r, [Logged(q, "put_content", key, TRUE) EXCEPT
                                  !.updateData.contentUrl = CanonicalLocator(key),
                                  !.pc = IF q.coverFile # NoFile THEN "c_put_cover"
                                         ELSE "c_update"])
        /\ UNCHANGED <<rows, nextId, started, detached, issued, call>>

\* uploadBlogCoverImage(coverFile.buffer, blog.id, coverFile.originalname, ...)
createBlog_uploadCover(r) ==
    LET q == reqs[r]
        key == uploadBlogCoverImageKey(q.blogId, q.coverFile.originalname)
    IN  /\ q.pc = "c_put_cover"
        /\ \E fail \in BOOLEAN :
            /\ IF fail
               THEN /\ Step(r, createBlog_catch(q, "put_cover", key))
                    /\ UNCHANGED store
               ELSE /\ store' = uploadFile(store, q.coverFile.buffer, key)
                    /\ Step(r, [Logged(q, "put_cover", key, TRUE) EXCEPT
                                  !.updateData.coverImageUrl = CanonicalLocator(key),
                                  !.pc = "c_update"])
        /\ UNCHANGED <<rows, nextId, started, detached, issued, call>>

\* prisma.blog.update({where: {id: blog.id}, data: {contentUrl, coverImageUrl}})
\* and the 201 response carrying the updated row
createBlog_update(r) ==
    LET q == reqs[r]
        new == [rows[q.blogId] EXCEPT !.contentUrl = q.updateData.contentUrl,
                                      !.coverImageUrl = q.updateData.coverImageUrl]
    IN  /\ q.pc = "c_update"
        /\ \E fail \in BOOLEAN :
            /\ IF fail \/ q.blogId \notin DOMAIN rows
               THEN /\ Step(r, createBlog_catch(q, "update", Null))
                    /\ UNCHANGED rows
               ELSE /\ rows' = [rows EXCEPT ![q.blogId] = new]
                    /\ Step(r, Respond(Logged(q, "update", Null, TRUE), 201, new))
        /\ UNCHANGED <<nextId, store, started, detached, issued, call>>

\* ------------------------------------------------------------ updateBlog
\* the replacement goes straight to the upload and never looks at the old key
ReplaceEntry_noCleanup(slot, oldUrl) == "u_put_" \o slot

\* the first store call of a slot's replacement: replaceBlogContent and
\* replaceBlogCoverImage probe the old key when extractKeyFromUrl gives one
\* (oldKey && await fileExists(oldKey)) and go straight to the upload otherwise
ReplaceEntry(slot, oldUrl) ==
    IF IsFalsy(extractKeyFromUrl(oldUrl)) THEN "u_put_" \o slot ELSE "u_head_" \o slot

\* the row is written as soon as the content slot is settled
AfterContent_early(q) == "u_update"

\* where updateBlog goes once the content slot is settled
AfterContent(q) ==
    IF q.coverFile # NoFile THEN ReplaceEntry("cover", q.existing.coverImageUrl)
    ELSE "u_update"

\* where updateBlog goes after the lookup
AfterFind(q) ==
    IF q.contentFile # NoFile THEN ReplaceEntry("content", q.existing.contentUrl)
    ELSE AfterContent(q)

OldUrl(q, slot) == IF slot = "content" THEN q.existing.contentUrl
                   ELSE q.existing.coverImageUrl

\* the blogId argument of the s3Service functions: the id of the record, or
\* its slug in the slug-keyed controller
KeySpace(q) == IF q.slug = "" THEN q.blogId ELSE q.slug

NewKey(q, slot) ==
    IF slot = "content" THEN uploadBlogContentKey(KeySpace(q), q.contentFile.mimetype)
    ELSE uploadBlogCoverImageKey(KeySpace(q), q.coverFile.originalname)

NewBytes(q, slot) == IF slot = "content" THEN q.sanitizedBuffer ELSE q.coverFile.buffer

AfterSlot(q, slot) == IF slot = "content" THEN AfterContent(q) ELSE "u_update"

\* the catch block of updateBlog: whatever was thrown (the replace functions
\* catch nothing themselves), answer 500
updateBlog_catch(q, op, key) == Respond(Logged(q, op, key, FALSE), 500, NoRow)

\* prisma.blog.findUnique, the 404 answer, updateData and the sanitizer
updateBlog(r) ==
    /\ Arrives(r)
    /\ \E id \in Ids, title \in Titles,
          cf \in ContentFiles \cup {NoFile}, cov \in CoverFiles \cup {NoFile},
          failFind \in BOOLEAN, failSanitize \in BOOLEAN :
        LET q0 == [Idle EXCEPT !.op = "updateBlog", !.blogId = id, !.title = title,
                               !.contentFile = cf, !.coverFile = cov]
            found == findUnique(id)
            q1 == [Logged(q0, "find", Null, TRUE) EXCEPT
                     !.existing = found, !.updateData.title = title]
            q2 == [Logged(q1, "sanitize", Null, TRUE) EXCEPT
                     !.sanitizedBuffer = UploadedContent(cf)]
        IN  /\ ~(failFind /\ failSanitize)
            /\ failSanitize => (cf # NoFile /\ found # NoRow /\ ~found.deletedAt)
            /\ started' = started + 1
            /\ IF failFind
               THEN Begin(r, updateBlog_catch(q0, "find", Null))
               ELSE IF found = NoRow \/ found.deletedAt
               THEN Begin(r, Respond(Logged(q0, "find", Null, TRUE), 404, NoRow))
               ELSE IF failSanitize
               THEN Begin(r, updateBlog_catch(q1, "sanitize", Null))
               ELSE IF cf # NoFile
               THEN Begin(r, [q2 EXCEPT !.pc = AfterFind(q2)])
               ELSE Begin(r, [q1 EXCEPT !.pc = AfterFind(q1)])
    /\ UNCHANGED <<rows, nextId, store, detached, issued, call>>

\* await fileExists(oldKey): HeadObject; an error other than NotFound is thrown
Replace_fileExists(r, slot) ==
    LET q == reqs[r]
        oldKey == extractKeyFromUrl(OldUrl(q, slot))
    IN  /\ q.pc = "u_head_" \o slot
        /\ \E fail \in BOOLEAN :
            /\ IF fail
               THEN Step(r, updateBlog_catch(q, "head_" \o slot, oldKey))
               ELSE Step(r, [Logged(q, "head_" \o slot, oldKey, TRUE) EXCEPT
                               !.pc = IF fileExists(store, oldKey)
                                      THEN "u_del_" \o slot ELSE "u_put_" \o slot])
        /\ UNCHANGED <<rows, nextId, store, started, detached, issued, call>>

\* await deleteFile(oldKey): DeleteObject; a failure is rethrown
Replace_deleteFile(r, slot) ==
    LET q == reqs[r]
        oldKey == extractKeyFromUrl(OldUrl(q, slot))
    IN  /\ q.pc = "u_del_" \o slot
        /\ \E fail \in BOOLEAN :
            /\ IF fail
               THEN /\ Step(r, updateBlog_catch(q, "del_" \o slot, oldKey))
                    /\ UNCHANGED store
               ELSE /\ store' = deleteFile(store, oldKey)
                    /\ Step(r, [Logged(q, "del_" \o slot, oldKey, TRUE) EXCEPT
                                  !.pc = "u_put_" \o slot])
        /\ UNCHANGED <<rows, nextId, started, detached, issued, call>>

\* uploadBlogContent / uploadBlogCoverImage of the new file; the locator
\* returned goes into updateData
Replace_upload(r, slot) ==
    LET q == reqs[r]
        key == NewKey(q, slot)
        q1 == Logged(q, "put_" \o slot, key, TRUE)
    IN  /\ q.pc = "u_put_" \o slot
        /\ \E fail \in BOOLEAN :
            /\ IF fail
               THEN /\ Step(r, updateBlog_catch(q, "put_" \o slot, key))
                    /\ UNCHANGED store
               ELSE /\ store' = uploadFile(store, NewBytes(q, slot), key)
                    /\ Step(r, [(IF slot = "content"
                                 THEN [q1 EXCEPT !.updateData.contentUrl = CanonicalLocator(key)]
                                 ELSE [q1 EXCEPT !.updateData.coverImageUrl = CanonicalLocator(key)])
                                EXCEPT !.pc = AfterSlot(q, slot)])
        /\ UNCHANGED <<rows, nextId, started, detached, issued, call>>

replaceBlogContent_fileExists(r) == Replace_fileExists(r, "content")
replaceBlogContent_deleteFile(r) == Replace_deleteFile(r, "content")
replaceBlogContent_upload(r) == Replace_upload(r, "content")
replaceBlogCoverImage_fileExists(r) == Replace_fileExists(r, "cover")
replaceBlogCoverImage_deleteFile(r) == Replace_deleteFile(r, "cover")
replaceBlogCoverImage_upload(r) == Replace_upload(r, "cover")

\* prisma.blog.update({where: {id: blogId}, data: updateData}) and the 200
updateBlog_update(r) ==
    LET q == reqs[r]
        new == ApplyData(rows[q.blogId], q.updateData)
    IN  /\ q.pc = "u_update"
        /\ \E fail \in BOOLEAN :
            /\ IF fail \/ q.blogId \notin DOMAIN rows
               THEN /\ Step(r, updateBlog_catch(q, "update", Null))
                    /\ UNCHANGED rows
               ELSE /\ rows' = [rows EXCEPT ![q.blogId] = new]
                    /\ Step(r, Respond(Logged(q, "update", Null, TRUE), 200, new))
        /\ UNCHANGED <<nextId, store, started, detached, issued, call>>

\* ------------------------------------------------------------ deleteBlog
\* prisma.blog.findUnique and the 404 answer
deleteBlog(r) ==
    /\ Arrives(r)
    /\ \E id \in Ids, fail \in BOOLEAN :
        LET q0 == [Idle EXCEPT !.op = "deleteBlog", !.blogId = id]
            found == findUnique(id)
        IN  /\ started' = started + 1
            /\ IF fail
               THEN Begin(r, Respond(Logged(q0, "find", Null, FALSE), 500, NoRow))
               ELSE IF found = NoRow \/ found.deletedAt
               THEN Begin(r, Respond(Logged(q0, "find", Null, TRUE), 404, NoRow))
               ELSE Begin(r, [Logged(q0, "find", Null, TRUE) EXCEPT
                                !.existing = found, !.pc = "d_update"])
    /\ UNCHANGED <<rows, nextId, store, detached, issued, call>>

\* a soft delete that also removes the content object of the record
deleteBlog_update_purge(r) ==
    LET q == reqs[r]
    IN  /\ q.pc = "d_update"
        /\ q.blogId \in DOMAIN rows
        /\ rows' = [rows EXCEPT ![q.blogId].deletedAt = TRUE]
        /\ store' = deleteFile(store, extractKeyFromUrl(rows[q.blogId].contentUrl))
        /\ Step(r, Respond(Logged(q, "update", Null, TRUE), 200, NoRow))
        /\ UNCHANGED <<nextId, started, detached, issued, call>>

\* prisma.blog.update({where: {id}, data: {deletedAt: new Date()}})
deleteBlog_update(r) ==
    LET q == reqs[r]
    IN  /\ q.pc = "d_update"
        /\ \E fail \in BOOLEAN :
            /\ IF fail \/ q.blogId \notin DOMAIN rows
               THEN /\ Step(r, Respond(Logged(q, "update", Null, FALSE), 500, NoRow))
                    /\ UNCHANGED rows
               ELSE /\ rows' = [rows EXCEPT ![q.blogId].deletedAt = TRUE]
                    /\ Step(r, Respond(Logged(q, "update", Null, TRUE), 200, NoRow))
        /\ UNCHANGED <<nextId, store, started, detached, issued, call>>

\* --------------------------------------------------- permanentDeleteBlog
\* where deleteBlogFiles goes from candidate i: the next candidate's probe,
\* or back to the controller once the candidates are used up
NextCandidate(q, i) == IF i <= Len(q.keys) THEN "p_head" ELSE "p_delete"

\* prisma.blog.findUnique, the 404 answer, and the call deleteBlogFiles(blogId)
permanentDeleteBlog(r) ==
    /\ Arrives(r)
    /\ \E id \in Ids, fail \in BOOLEAN :
        LET q0 == [Idle EXCEPT !.op = "permanentDeleteBlog", !.blogId = id]
            found == findUnique(id)
            q1 == [Logged(q0, "find", Null, TRUE) EXCEPT
                     !.existing = found,
                     !.keys = deleteBlogFilesKeys(id, Null, Null), !.ki = 1]
        IN  /\ started' = started + 1
            /\ IF fail
               THEN Begin(r, Respond(Logged(q0, "find", Null, FALSE), 500, NoRow))
               ELSE IF found = NoRow
               THEN Begin(r, Respond(Logged(q0, "find", Null, TRUE), 404, NoRow))
               ELSE Begin(r, [q1 EXCEPT !.pc = NextCandidate(q1, 1)])
    /\ UNCHANGED <<rows, nextId, store, detached, issued, call>>

\* deleteBlogFiles rethrowing: the error reaches the catch of the controller
deleteBlogFiles_catch_rethrow(q, op, key) == Respond(Logged(q, op, key, FALSE), 500, NoRow)

\* the catch block of deleteBlogFiles: one try around every candidate; the
\* error is logged, not rethrown, and the function returns to the controller
deleteBlogFiles_catch(q, op, key) == [Logged(q, op, key, FALSE) EXCEPT !.pc = "p_delete"]

\* deleteBlogFiles: await fileExists(key) of the current candidate
deleteBlogFiles_fileExists(r) ==
    LET q == reqs[r]
        key == q.keys[q.ki]
    IN  /\ q.pc = "p_head"
        /\ \E fail \in BOOLEAN :
            /\ IF fail
               THEN Step(r, deleteBlogFiles_catch(q, "head", key))
               ELSE IF fileExists(store, key)
               THEN Step(r, [Logged(q, "head", key, TRUE) EXCEPT !.pc = "p_del"])
               ELSE Step(r, [Logged(q, "head", key, TRUE) EXCEPT
                               !.ki = q.ki + 1, !.pc = NextCandidate(q, q.ki + 1)])
        /\ UNCHANGED <<rows, nextId, store, started, detached, issued, call>>

\* deleteBlogFiles: await deleteFile(key) of the current candidate
deleteBlogFiles_deleteFile(r) ==
    LET q == reqs[r]
        key == q.keys[q.ki]
    IN  /\ q.pc = "p_del"
        /\ \E fail \in BOOLEAN :
            /\ IF fail
               THEN /\ Step(r, deleteBlogFiles_catch(q, "del", key))
                    /\ UNCHANGED store
               ELSE /\ store' = deleteFile(store, key)
                    /\ Step(r, [Logged(q, "del", key, TRUE) EXCEPT
                                  !.ki = q.ki + 1, !.pc = NextCandidate(q, q.ki + 1)])
        /\ UNCHANGED <<rows, nextId, started, detached, issued, call>>

\* prisma.blog.delete({where: {id: blogId}}) and the 200
permanentDeleteBlog_delete(r) ==
    LET q == reqs[r]
    IN  /\ q.pc = "p_delete"
        /\ \E fail \in BOOLEAN :
            /\ IF fail \/ q.blogId \notin DOMAIN rows
               THEN /\ Step(r, Respond(Logged(q, "delete", Null, FALSE), 500, NoRow))
                    /\ UNCHANGED rows
               ELSE /\ rows' = [i \in (DOMAIN rows) \ {q.blogId} |-> rows[i]]
                    /\ Step(r, Respond(Logged(q, "delete", Null, TRUE), 200, NoRow))
        /\ UNCHANGED <<nextId, store, started, detached, issued, call>>

Next ==
    \E r \in Slots :
        \/ createBlog(r)
        \/ createBlog_uploadContent(r)
        \/ createBlog_uploadCover(r)
        \/ createBlog_update(r)
        \/ updateBlog(r)
        \/ replaceBlogContent_fileExists(r)
        \/ replaceBlogContent_deleteFile(r)
        \/ replaceBlogContent_upload(r)
        \/ replaceBlogCoverImage_fileExists(r)
        \/ replaceBlogCoverImage_deleteFile(r)
        \/ replaceBlogCoverImage_upload(r)
        \/ updateBlog_update(r)
        \/ deleteBlog(r)
        \/ deleteBlog_update(r)
        \/ permanentDeleteBlog(r)
        \/ deleteBlogFiles_fileExists(r)
        \/ deleteBlogFiles_deleteFile(r)
        \/ permanentDeleteBlog_delete(r)

Spec == Init /\ [][Next]_vars

\* --------------------------------------------------- temporary-access URLs
\* the signed query string getSignedUrl appends to the object's URL
SIGNATURE == "?X-Amz-Expires=3600&X-Amz-Signature"

\* getSignedUrl(s3Client, new GetObjectCommand({Bucket, Key: key})): the
\* provider URL of the key, followed by the signed query
getSignedUrl(key) ==
    <<"https:", "", "bkt.s3.ap-south-1.amazonaws.com">> \o key \o <<SIGNATURE>>

IsSignedUrl(u) == u # Null /\ u[Len(u)] = SIGNATURE

\* extractS3Key returning its argument when no shape matches
extractS3Key_passthrough(contentUrl) ==
    IF IsFalsy(contentUrl) THEN Null
    ELSE IF Len(contentUrl) >= 3 /\ contentUrl[1] = "s3:" /\ contentUrl[2] = ""
         THEN IF contentUrl[3] # "" /\ Len(contentUrl) >= 4
              THEN Tail_n(contentUrl, 3) ELSE contentUrl
    ELSE IF IsPrefix(S3_CDN_URL, contentUrl)
         THEN IF Len(contentUrl) > Len(S3_CDN_URL)
              THEN Tail_n(contentUrl, Len(S3_CDN_URL)) ELSE contentUrl
    ELSE IF AwsMatches(contentUrl) # {}
         THEN Tail_n(contentUrl, Min(AwsMatches(contentUrl)))
    ELSE contentUrl

\* the key codec of the issuer: the same three shapes as extractKeyFromUrl
extractS3Key(contentUrl) ==
    IF IsFalsy(contentUrl) THEN Null
    ELSE IF Len(contentUrl) >= 3 /\ contentUrl[1] = "s3:" /\ contentUrl[2] = ""
         \* contentUrl.replace(/^s3:\/\/[^/]+\//, '')
         THEN IF contentUrl[3] # "" /\ Len(contentUrl) >= 4
              THEN Tail_n(contentUrl, 3) ELSE contentUrl
    ELSE IF IsPrefix(S3_CDN_URL, contentUrl)
         \* contentUrl.replace(`${S3_CDN_URL}/`, '')
         THEN IF Len(contentUrl) > Len(S3_CDN_URL)
              THEN Tail_n(contentUrl, Len(S3_CDN_URL)) ELSE contentUrl
    ELSE IF AwsMatches(contentUrl) # {}
         THEN Tail_n(contentUrl, Min(AwsMatches(contentUrl)))
    ELSE Null

\* what generatePresignedUrl gives back: the URL, or the error it throws
Issued(url) == [ok |-> TRUE, url |-> url]

Thrown == [ok |-> FALSE, url |-> Null]

\* the issuer refusing every locator the codec extracts no key from
generatePresignedUrl_strict(s3Url, signerFails) ==
    IF IsFalsy(s3Url) \/ IsFalsy(extractS3Key(s3Url)) \/ signerFails THEN Thrown
    ELSE Issued(getSignedUrl(extractS3Key(s3Url)))

\* generatePresignedUrl(s3Url): key = extractS3Key(s3Url) || s3Url, then the
\* signer, whose failure is rethrown
generatePresignedUrl(s3Url, signerFails) ==
    IF IsFalsy(s3Url) THEN Thrown
    ELSE LET key == IF IsFalsy(extractS3Key(s3Url)) THEN s3Url
                    ELSE extractS3Key(s3Url)
         IN  IF IsFalsy(key) THEN Thrown
             ELSE IF signerFails THEN Thrown
             ELSE Issued(getSignedUrl(key))

\* ------------------------------------------------------------ read paths
\* req.params.slug
Slugs == {"a", "b"}

\* req.query.query and req.query.search ('' when absent)
Queries == {"", "T1"}

\* req.query.tags, parsed
TagSets == {{}, {"t1"}}

\* req.query.page and req.query.limit of the list, after the defaults
Pages == {1, 2}

PageLimits == {1, 20}

\* req.query.limit of the feeds, after the default
FeedLimits == {1, 5, 51}

\* bags of record ids
Count(bag, id) == IF id \in DOMAIN bag THEN bag[id] ELSE 0

Plus(bag, id) ==
    [i \in (DOMAIN bag) \cup {id} |-> Count(bag, i) + (IF i = id THEN 1 ELSE 0)]

Minus(bag, id) ==
    [i \in { j \in DOMAIN bag : j # id \/ bag[j] > 1 } |->
        IF i = id THEN bag[i] - 1 ELSE bag[i]]

\* prisma.blog.findUnique({where: {slug}}): the id of the row, 0 for none
findUniqueSlug(slug) ==
    IF \E i \in DOMAIN rows : rows[i].slug = slug
    THEN CHOOSE i \in DOMAIN rows : rows[i].slug = slug
    ELSE 0

\* the row with the view of this read already counted
Blog_incremented(id) ==
    [id |-> id, title |-> rows[id].title, contentUrl |-> rows[id].contentUrl,
     coverImageUrl |-> rows[id].coverImageUrl, views |-> rows[id].views + 1,
     slug |-> rows[id].slug, status |-> rows[id].status,
     deletedAt |-> rows[id].deletedAt]

\* the row findUnique resolves to, with its id
Blog(id) ==
    [id |-> id, title |-> rows[id].title, contentUrl |-> rows[id].contentUrl,
     coverImageUrl |-> rows[id].coverImageUrl, views |-> rows[id].views,
     slug |-> rows[id].slug, status |-> rows[id].status,
     deletedAt |-> rows[id].deletedAt]

\* the columns the list, feed and search queries select
Selected(id) ==
    [id |-> id, title |-> rows[id].title, contentUrl |-> rows[id].contentUrl,
     coverImageUrl |-> rows[id].coverImageUrl, views |-> rows[id].views]

\* createdAt grows with the id
CreatedAt(id) == id

Views(id) == rows[id].views

\* the column a query orders by
SortKey(id, orderBy) == IF orderBy = "views" THEN Views(id) ELSE CreatedAt(id)

\* orderBy: the arrangements of the ids in S that descend by key; rows with
\* equal keys come in an order the database picks
Descending(S, orderBy) ==
    { seq \in [1..Cardinality(S) -> S] :
        /\ \A i, j \in 1..Cardinality(S) : i # j => seq[i] # seq[j]
        /\ \A i, j \in 1..Cardinality(S) :
              i < j => SortKey(seq[i], orderBy) >= SortKey(seq[j], orderBy) }

\* skip and take
Page(seq, skip, take) ==
    IF skip >= Len(seq) THEN <<>>
    ELSE SubSeq(seq, skip + 1, IF skip + take <= Len(seq) THEN skip + take ELSE Len(seq))

SelectedAll(seq) == [i \in 1..Len(seq) |-> Selected(seq[i])]

\* the columns the slug-keyed queries and the search statement select
slug_Selected(id) ==
    [id |-> id, title |-> rows[id].title, slug |-> rows[id].slug,
     status |-> rows[id].status, contentUrl |-> rows[id].contentUrl,
     coverImageUrl |-> rows[id].coverImageUrl, views |-> rows[id].views]

slug_SelectedAll(seq) == [i \in 1..Len(seq) |-> slug_Selected(seq[i])]

\* the read queries without the deletedAt condition
NotDeleted_all == DOMAIN rows

\* where: {deletedAt: null}
NotDeleted == { i \in DOMAIN rows : ~rows[i].deletedAt }

\* getBlogs' where: deletedAt null, tags hasSome, title contains search
Listed(tags, search) ==
    { i \in NotDeleted : /\ tags # {} => rows[i].tags \cap tags # {}
                         /\ search # "" => rows[i].title = search }

\* searchBlogs' WHERE: "deletedAt" IS NULL AND status = 'published' AND the
\* text of the row matches the query
Searched(query) ==
    { i \in NotDeleted : rows[i].status = "published" /\ rows[i].title = query }

\* the view increment a read issues and does not await
Detach(id) == /\ detached' = Plus(detached, id)
              /\ issued' = Plus(issued, id)

\* getBlogs: prisma.blog.findMany of the page; the count runs beside it
getBlogs(r) ==
    /\ Arrives(r)
    /\ \E tags \in TagSets, search \in Queries, page \in Pages,
          limit \in PageLimits, fail \in BOOLEAN :
        LET q0 == [Idle EXCEPT !.op = "getBlogs", !.query = search, !.limit = limit]
        IN  /\ started' = started + 1
            /\ IF fail
               THEN Begin(r, Respond(Logged(q0, "findMany", Null, FALSE), 500, NoRow))
               ELSE \E seq \in Descending(Listed(tags, search), "createdAt") :
                      Begin(r, [Logged(q0, "findMany", Null, TRUE) EXCEPT
                                  !.results = SelectedAll(Page(seq, (page - 1) * limit, limit)),
                                  !.tags = tags,
                                  !.pc = "l_count"])
    /\ UNCHANGED <<rows, nextId, store, detached, issued, call>>

\* getBlogs: prisma.blog.count({where}) and the 200; the rows go out as read
getBlogs_count(r) ==
    LET q == reqs[r]
    IN  /\ q.pc = "l_count"
        /\ \E fail \in BOOLEAN :
            IF fail
            THEN Step(r, Respond(Logged(q, "count", Null, FALSE), 500, NoRow))
            ELSE Step(r, Respond(Logged(q, "count", Null, TRUE), 200,
                                 [items |-> q.results,
                                  total |-> Cardinality(Listed(q.tags, q.query))]))
        /\ UNCHANGED <<rows, nextId, store, started, detached, issued, call>>

\* a fetch that tells a soft-deleted row (410) from a missing one (404)
Fetched_gone(r, q0, id) ==
    IF id \notin DOMAIN rows
    THEN /\ Begin(r, Respond(Logged(q0, "find", Null, TRUE), 404, NoRow))
         /\ UNCHANGED <<detached, issued>>
    ELSE IF rows[id].deletedAt
    THEN /\ Begin(r, Respond(Logged(q0, "find", Null, TRUE), 410, NoRow))
         /\ UNCHANGED <<detached, issued>>
    ELSE /\ Begin(r, Respond([Logged(q0, "find", Null, TRUE) EXCEPT
                                !.blogId = id, !.existing = rows[id]],
                             200, Blog(id)))
         /\ Detach(id)

\* what getBlogById and getBlogBySlug do with the row they found: the 404,
\* or the detached increment and the 200 carrying the row as read
Fetched(r, q0, id) ==
    IF id \notin DOMAIN rows \/ rows[id].deletedAt
    THEN /\ Begin(r, Respond(Logged(q0, "find", Null, TRUE), 404, NoRow))
         /\ UNCHANGED <<detached, issued>>
    ELSE /\ Begin(r, Respond([Logged(q0, "find", Null, TRUE) EXCEPT
                                !.blogId = id, !.existing = rows[id]],
                             200, Blog(id)))
         /\ Detach(id)

getBlogById(r) ==
    /\ Arrives(r)
    /\ \E id \in Ids, fail \in BOOLEAN :
        LET q0 == [Idle EXCEPT !.op = "getBlogById", !.blogId = id]
        IN  /\ started' = started + 1
            /\ IF fail
               THEN /\ Begin(r, Respond(Logged(q0, "find", Null, FALSE), 500, NoRow))
                    /\ UNCHANGED <<detached, issued>>
               ELSE Fetched(r, q0, id)
    /\ UNCHANGED <<rows, nextId, store, call>>

getBlogBySlug(r) ==
    /\ Arrives(r)
    /\ \E slug \in Slugs, fail \in BOOLEAN :
        LET q0 == [Idle EXCEPT !.op = "getBlogBySlug", !.slug = slug]
        IN  /\ started' = started + 1
            /\ IF fail
               THEN /\ Begin(r, Respond(Logged(q0, "find", Null, FALSE), 500, NoRow))
                    /\ UNCHANGED <<detached, issued>>
               ELSE Fetched(r, q0, findUniqueSlug(slug))
    /\ UNCHANGED <<rows, nextId, store, call>>

\* a detached update that counts the view twice
incrementViews_twice(id) ==
    /\ Count(detached, id) > 0
    /\ detached' = Minus(detached, id)
    /\ \E fail \in BOOLEAN :
        IF fail \/ id \notin DOMAIN rows
        THEN UNCHANGED rows
        ELSE rows' = [rows EXCEPT ![id].views = @ + 2]
    /\ reqs' = [s \in Slots |-> Cleared(reqs[s])]
    /\ UNCHANGED <<nextId, store, started, issued, call>>

\* the detached prisma.blog.update({data: {views: {increment: 1}}}) and its
\* .catch: a failure is logged and goes nowhere
incrementViews(id) ==
    /\ Count(detached, id) > 0
    /\ detached' = Minus(detached, id)
    /\ \E fail \in BOOLEAN :
        IF fail \/ id \notin DOMAIN rows
        THEN UNCHANGED rows
        ELSE rows' = [rows EXCEPT ![id].views = @ + 1]
    /\ reqs' = [s \in Slots |-> Cleared(reqs[s])]
    /\ UNCHANGED <<nextId, store, started, issued, call>>

\* the outcomes of the signer for one record: every call succeeds, or the
\* call for one of its non-empty locator fields fails
SignerOutcomes(rec) ==
    {"none"} \cup (IF IsFalsy(rec.contentUrl) THEN {} ELSE {"contentUrl"})
             \cup (IF IsFalsy(rec.coverImageUrl) THEN {} ELSE {"coverImageUrl"})

\* the map callback of the search and feed handlers: both locators signed
\* inside one try; its catch returns the record with both locators null
WithUrls(blog, failed) ==
    LET content == IF IsFalsy(blog.contentUrl) THEN Issued(Null)
                   ELSE generatePresignedUrl(blog.contentUrl, failed = "contentUrl")
        cover == IF IsFalsy(blog.coverImageUrl) THEN Issued(Null)
                 ELSE generatePresignedUrl(blog.coverImageUrl, failed = "coverImageUrl")
    IN  IF content.ok /\ cover.ok
        THEN [blog EXCEPT !.contentUrl = content.url, !.coverImageUrl = cover.url]
        ELSE [blog EXCEPT !.contentUrl = Null, !.coverImageUrl = Null]

\* Promise.all over the records read, and the 200
SignAll(r) ==
    LET q == reqs[r]
    IN  \E failed \in [1..Len(q.results) -> {"none", "contentUrl", "coverImageUrl"}] :
          /\ \A i \in 1..Len(q.results) : failed[i] \in SignerOutcomes(q.results[i])
          /\ Step(r, Respond([Logged(q, "sign", Null, TRUE) EXCEPT !.signFailed = failed],
                             200,
                             [items |-> [i \in 1..Len(q.results) |->
                                           WithUrls(q.results[i], failed[i])]]))

\* searchBlogsController: searchBlogs(query, limit, offset), whose error
\* (an empty query, a failed statement) reaches the catch of the controller
searchBlogsController(r) ==
    /\ Arrives(r)
    /\ \E query \in Queries, page \in Pages, limit \in PageLimits, fail \in BOOLEAN :
        LET q0 == [Idle EXCEPT !.op = "searchBlogsController", !.query = query,
                               !.limit = limit]
        IN  /\ started' = started + 1
            /\ IF fail \/ query = ""
               THEN Begin(r, Respond(Logged(q0, "search", Null, FALSE), 500, NoRow))
               ELSE \E seq \in Descending(Searched(query), "createdAt") :
                      Begin(r, [Logged(q0, "search", Null, TRUE) EXCEPT
                                  !.results = slug_SelectedAll(Page(seq, (page - 1) * limit, limit)),
                                  !.pc = "s_count"])
    /\ UNCHANGED <<rows, nextId, store, detached, issued, call>>

\* searchBlogs: the count statement that runs beside the search statement
searchBlogs_count(r) ==
    LET q == reqs[r]
    IN  /\ q.pc = "s_count"
        /\ \E fail \in BOOLEAN :
            IF fail
            THEN Step(r, Respond(Logged(q, "count", Null, FALSE), 500, NoRow))
            ELSE Step(r, [Logged(q, "count", Null, TRUE) EXCEPT !.pc = "s_sign"])
        /\ UNCHANGED <<rows, nextId, store, started, detached, issued, call>>

\* searchBlogsController: the presigned URLs of the results and the 200
searchBlogsController_sign(r) ==
    /\ reqs[r].pc = "s_sign"
    /\ SignAll(r)
    /\ UNCHANGED <<rows, nextId, store, started, detached, issued, call>>

\* getLatestBlogs: the limit check and prisma.blog.findMany, newest first
getLatestBlogs(r) ==
    /\ Arrives(r)
    /\ \E limit \in FeedLimits, fail \in BOOLEAN :
        LET q0 == [Idle EXCEPT !.op = "getLatestBlogs", !.limit = limit]
        IN  /\ started' = started + 1
            /\ IF limit < 1 \/ limit > 50
               THEN Begin(r, Respond(q0, 400, NoRow))
               ELSE IF fail
               THEN Begin(r, Respond(Logged(q0, "findMany", Null, FALSE), 500, NoRow))
               ELSE \E seq \in Descending(NotDeleted, "createdAt") :
                      Begin(r, [Logged(q0, "findMany", Null, TRUE) EXCEPT
                                  !.results = SelectedAll(Page(seq, 0, limit)),
                                  !.pc = "f_sign"])
    /\ UNCHANGED <<rows, nextId, store, detached, issued, call>>

getLatestBlogs_sign(r) ==
    /\ reqs[r].pc = "f_sign"
    /\ SignAll(r)
    /\ UNCHANGED <<rows, nextId, store, started, detached, issued, call>>

\* getPopularBlogs: the limit check and prisma.blog.findMany, most viewed first
getPopularBlogs(r) ==
    /\ Arrives(r)
    /\ \E limit \in FeedLimits, fail \in BOOLEAN :
        LET q0 == [Idle EXCEPT !.op = "getPopularBlogs", !.limit = limit]
        IN  /\ started' = started + 1
            /\ IF limit < 1 \/ limit > 50
               THEN Begin(r, Respond(q0, 400, NoRow))
               ELSE IF fail
               THEN Begin(r, Respond(Logged(q0, "findMany", Null, FALSE), 500, NoRow))
               ELSE \E seq \in Descending(NotDeleted, "views") :
                      Begin(r, [Logged(q0, "findMany", Null, TRUE) EXCEPT
                                  !.results = SelectedAll(Page(seq, 0, limit)),
                                  !.pc = "p_sign"])
    /\ UNCHANGED <<rows, nextId, store, detached, issued, call>>

getPopularBlogs_sign(r) ==
    /\ reqs[r].pc = "p_sign"
    /\ SignAll(r)
    /\ UNCHANGED <<rows, nextId, store, started, detached, issued, call>>

\* getBlogContent: prisma.blog.findUnique, the 404, the detached increment
\* and extractS3Key(blog.contentUrl) with its 500
getBlogContent(r) ==
    /\ Arrives(r)
    /\ \E id \in Ids, fail \in BOOLEAN :
        LET q0 == [Idle EXCEPT !.op = "getBlogContent", !.blogId = id]
            q1 == [Logged(q0, "find", Null, TRUE) EXCEPT !.existing = findUnique(id)]
        IN  /\ started' = started + 1
            /\ IF fail
               THEN /\ Begin(r, Respond(Logged(q0, "find", Null, FALSE), 500, NoRow))
                    /\ UNCHANGED <<detached, issued>>
               ELSE IF id \notin DOMAIN rows \/ rows[id].deletedAt
               THEN /\ Begin(r, Respond(Logged(q0, "find", Null, TRUE), 404, NoRow))
                    /\ UNCHANGED <<detached, issued>>
               ELSE /\ Detach(id)
                    /\ IF IsFalsy(extractS3Key(rows[id].contentUrl))
                       THEN Begin(r, Respond(Logged(q1, "key", Null, FALSE), 500, NoRow))
                       ELSE Begin(r, [q1 EXCEPT !.pc = "g_send"])
    /\ UNCHANGED <<rows, nextId, store, call>>

\* the payload of getBlogContent
ContentPayload(q, cover, content) ==
    [id |-> q.blogId, title |-> q.existing.title, coverImageUrl |-> cover,
     views |-> q.existing.views + 1, content |-> content]

\* the payload of the slug-keyed getBlogContent
slug_ContentPayload(q, cover, content) ==
    [id |-> q.blogId, title |-> q.existing.title, slug |-> q.existing.slug,
     status |-> q.existing.status, coverImageUrl |-> cover,
     views |-> q.existing.views + 1, content |-> content]

\* the payload of the variant the request came through
Payload(q, cover, content) ==
    IF q.slug = "" THEN ContentPayload(q, cover, content)
    ELSE slug_ContentPayload(q, cover, content)

\* getBlogContent: s3Client.send(GetObjectCommand) of the content key; then
\* the cover locator goes out as stored unless extractS3Key finds its key
getBlogContent_send(r) ==
    LET q == reqs[r]
        key == extractS3Key(q.existing.contentUrl)
        cover == q.existing.coverImageUrl
    IN  /\ q.pc = "g_send"
        /\ \E fail \in BOOLEAN :
            IF fail \/ ~fileExists(store, key)
            THEN Step(r, Respond(Logged(q, "get", key, FALSE), 500, NoRow))
            ELSE IF ~IsFalsy(cover) /\ ~IsFalsy(extractS3Key(cover))
            THEN Step(r, [Logged(q, "get", key, TRUE) EXCEPT
                            !.content = store[key], !.pc = "g_sign"])
            ELSE Step(r, Respond(Logged(q, "get", key, TRUE), 200,
                                 Payload(q, cover, store[key])))
        /\ UNCHANGED <<rows, nextId, store, started, detached, issued, call>>

\* getBlogContent: generatePresignedUrl(coverKey, 3600), not caught locally
getBlogContent_sign(r) ==
    LET q == reqs[r]
        coverKey == extractS3Key(q.existing.coverImageUrl)
    IN  /\ q.pc = "g_sign"
        /\ \E fail \in BOOLEAN :
            LET signed == generatePresignedUrl(coverKey, fail)
            IN  IF ~signed.ok
                THEN Step(r, Respond([Logged(q, "sign", coverKey, FALSE) EXCEPT
                                        !.signFailed = <<"coverImageUrl">>],
                                     500, NoRow))
                ELSE Step(r, Respond(Logged(q, "sign", coverKey, TRUE), 200,
                                     Payload(q, signed.url, q.content)))
        /\ UNCHANGED <<rows, nextId, store, started, detached, issued, call>>

\* ------------------------------------------------- the populated service
\* a row of the full schema as a completed create left it, and afterwards
\* published, tagged or soft-deleted
SeedRow(id, slug, status, tags, contentUrl, cov, deleted) ==
    [title |-> "T1", slug |-> slug, status |-> status, tags |-> tags,
     contentUrl |-> contentUrl,
     coverImageUrl |-> IF cov = NoFile THEN Null
                       ELSE CanonicalLocator(uploadBlogCoverImageKey(id, cov.originalname)),
     deletedAt |-> deleted, views |-> 0]

\* the objects the locators of the row point to
SeedStore(id, row, cov) ==
    LET key == extractKeyFromUrl(row.contentUrl)
        st == IF IsFalsy(key) THEN <<>>
              ELSE uploadFile(<<>>, sanitizeHTMLToBuffer(<<"p">>), key)
    IN  IF cov = NoFile THEN st
        ELSE uploadFile(st, cov.buffer, uploadBlogCoverImageKey(id, cov.originalname))

Photo == [buffer |-> <<"jpgbytes">>, originalname |-> <<"photo", "jpg">>]

Banner == [buffer |-> <<"pngbytes">>, originalname |-> <<"banner", "png">>]

Merge(f, g) == [k \in (DOMAIN f) \cup (DOMAIN g) |-> IF k \in DOMAIN f THEN f[k] ELSE g[k]]

\* the service with one or two records: record 1 created with or without a
\* cover, draft or published, live or soft-deleted; record 2 absent, or
\* published with its content uploaded or still on the placeholder an
\* interrupted createBlog left
InitRead ==
    /\ \E status \in {"draft", "published"}, cov \in {Photo, NoFile},
          del1 \in BOOLEAN, second \in {"none", "created", "placeholder"},
          del2 \in BOOLEAN :
        LET row1 == SeedRow(1, "a", status, {"t1"},
                            CanonicalLocator(uploadBlogContentKey(1, HTML)), cov, del1)
            row2 == SeedRow(2, "b", "published", {},
                            IF second = "created"
                            THEN CanonicalLocator(uploadBlogContentKey(2, HTML))
                            ELSE PLACEHOLDER,
                            IF second = "created" THEN Banner ELSE NoFile, del2)
        IN  /\ second = "none" => ~del2
            /\ rows = IF second = "none" THEN <<row1>> ELSE <<row1, row2>>
            /\ store = IF second = "none" THEN SeedStore(1, row1, cov)
                       ELSE Merge(SeedStore(1, row1, cov),
                                  SeedStore(2, row2, IF second = "created" THEN Banner ELSE NoFile))
            /\ nextId = IF second = "none" THEN 2 ELSE 3
    /\ reqs = [r \in Slots |-> Idle]
    /\ started = 0
    /\ detached = NoIncrements
    /\ issued = NoIncrements
    /\ call = NoCall

NextRead ==
    \/ \E r \in Slots :
        \/ getBlogs(r)
        \/ getBlogs_count(r)
        \/ getBlogById(r)
        \/ getBlogBySlug(r)
        \/ searchBlogsController(r)
        \/ searchBlogs_count(r)
        \/ searchBlogsController_sign(r)
        \/ getBlogContent(r)
        \/ getBlogContent_send(r)
        \/ getBlogContent_sign(r)
        \/ getLatestBlogs(r)
        \/ getLatestBlogs_sign(r)
        \/ getPopularBlogs(r)
        \/ getPopularBlogs_sign(r)
        \/ deleteBlog(r)
        \/ deleteBlog_update(r)
    \/ \E id \in Ids : incrementViews(id)

SpecRead == InitRead /\ [][NextRead]_vars

\* -------------------------------------------- the slug-keyed controller
\* req.body.status of a create
Statuses == {"draft", "published"}

\* the slug check passing over soft-deleted rows
SlugTaken_live(slug) ==
    findUniqueSlug(slug) # 0 /\ ~rows[findUniqueSlug(slug)].deletedAt

\* existingBlog / slugExists: findUnique({where: {slug}}) found a row,
\* soft-deleted or not
SlugTaken(slug) == findUniqueSlug(slug) # 0

\* the unique index on slug holds a row with this slug
SlugIndexed(slug) == \E i \in DOMAIN rows : rows[i].slug = slug

\* the catch block of the slug-keyed createBlog
slug_createBlog_catch(q, op, key) == Respond(Logged(q, op, key, FALSE), 500, NoRow)

\* createBlog of the slug-keyed controller: the slug check with its 409,
\* then the sanitizer
slug_createBlog(r) ==
    /\ Arrives(r)
    /\ \E slug \in Slugs, status \in Statuses,
          cf \in ContentFiles \cup {[buffer |-> <<"h1">>, mimetype |-> HTML]},
          cov \in {Photo, NoFile}, failFind \in BOOLEAN, failSanitize \in BOOLEAN :
        LET q0 == [Idle EXCEPT !.op = "createBlog", !.slug = slug, !.title = "T1",
                               !.status = status, !.contentFile = cf, !.coverFile = cov]
            q1 == Logged(q0, "find", Null, TRUE)
        IN  /\ ~(failFind /\ failSanitize)
            /\ failSanitize => ~SlugTaken(slug)
            /\ started' = started + 1
            /\ IF failFind
               THEN Begin(r, slug_createBlog_catch(q0, "find", Null))
               ELSE IF SlugTaken(slug)
               THEN Begin(r, Respond(q1, 409, NoRow))
               ELSE IF failSanitize
               THEN Begin(r, slug_createBlog_catch(q1, "sanitize", Null))
               ELSE Begin(r, [Logged(q1, "sanitize", Null, TRUE) EXCEPT
                                !.sanitizedBuffer = UploadedContent(cf),
                                !.pc = "sc_put_content"])
    /\ UNCHANGED <<rows, nextId, store, detached, issued, call>>

\* uploadBlogContent(sanitizedBuffer, slug, contentFile.mimetype)
slug_createBlog_uploadContent(r) ==
    LET q == reqs[r]
        key == uploadBlogContentKey(q.slug, q.contentFile.mimetype)
    IN  /\ q.pc = "sc_put_content"
        /\ \E fail \in BOOLEAN :
            IF fail
            THEN /\ Step(r, slug_createBlog_catch(q, "put_content", key))
                 /\ UNCHANGED store
            ELSE /\ store' = uploadFile(store, q.sanitizedBuffer, key)
                 /\ Step(r, [Logged(q, "put_content", key, TRUE) EXCEPT
                               !.updateData.contentUrl = CanonicalLocator(key),
                               !.pc = IF q.coverFile # NoFile THEN "sc_put_cover"
                                      ELSE "sc_create"])
        /\ UNCHANGED <<rows, nextId, started, detached, issued, call>>

\* uploadBlogCoverImage(coverFile.buffer, slug, coverFile.originalname, ...)
slug_createBlog_uploadCover(r) ==
    LET q == reqs[r]
        key == uploadBlogCoverImageKey(q.slug, q.coverFile.originalname)
    IN  /\ q.pc = "sc_put_cover"
        /\ \E fail \in BOOLEAN :
            IF fail
            THEN /\ Step(r, slug_createBlog_catch(q, "put_cover", key))
                 /\ UNCHANGED store
            ELSE /\ store' = uploadFile(store, q.coverFile.buffer, key)
                 /\ Step(r, [Logged(q, "put_cover", key, TRUE) EXCEPT
                               !.updateData.coverImageUrl = CanonicalLocator(key),
                               !.pc = "sc_create"])
        /\ UNCHANGED <<rows, nextId, started, detached, issued, call>>

\* prisma.blog.create({data: {title, slug, ..., contentUrl, coverImageUrl,
\* status}}): the unique index on slug rejects a slug some row holds
slug_createBlog_create(r) ==
    LET q == reqs[r]
        row == [title |-> q.title, slug |-> q.slug, status |-> q.status, tags |-> {},
                contentUrl |-> q.updateData.contentUrl,
                coverImageUrl |-> q.updateData.coverImageUrl,
                deletedAt |-> FALSE, views |-> 0]
    IN  /\ q.pc = "sc_create"
        /\ \E fail \in BOOLEAN :
            IF fail \/ SlugIndexed(q.slug)
            THEN /\ Step(r, slug_createBlog_catch(q, "create", Null))
                 /\ UNCHANGED <<rows, nextId>>
            ELSE /\ rows' = [i \in (DOMAIN rows) \cup {nextId} |->
                               IF i = nextId THEN row ELSE rows[i]]
                 /\ nextId' = nextId + 1
                 /\ Step(r, Respond([Logged(q, "create", Null, TRUE) EXCEPT
                                       !.blogId = nextId], 201, row))
        /\ UNCHANGED <<store, started, detached, issued, call>>

\* req.body.slug of an update ('' when absent)
BodySlugs == {""} \cup Slugs

\* prisma.blog.update({where: {id}, data: updateData}) of the slug-keyed
\* controller on the row
slug_ApplyData(row, data) ==
    [ApplyData(row, data) EXCEPT !.slug = IF data.slug # "" THEN data.slug ELSE @]

\* updateBlog of the slug-keyed controller after its checks: updateData, the
\* sanitizer, and on to the files; targetSlug is the namespace of the keys
slug_Prepared(q, failSanitize) ==
    LET q1 == [q EXCEPT !.updateData.title = q.title,
                        !.updateData.slug = q.slug,
                        !.slug = IF q.slug # "" THEN q.slug ELSE q.existing.slug]
        q2 == [Logged(q1, "sanitize", Null, TRUE) EXCEPT
                 !.sanitizedBuffer = UploadedContent(q.contentFile)]
    IN  IF q.contentFile = NoFile THEN [q1 EXCEPT !.pc = AfterFind(q1)]
        ELSE IF failSanitize THEN updateBlog_catch(q1, "sanitize", Null)
        ELSE [q2 EXCEPT !.pc = AfterFind(q2)]

\* updateBlog of the slug-keyed controller: findUnique by id and the 404; a
\* changed slug goes to the conflict check
slug_updateBlog(r) ==
    /\ Arrives(r)
    /\ \E id \in Ids, title \in Titles, slug \in BodySlugs,
          cf \in ContentFiles \cup {NoFile}, cov \in {Banner, NoFile},
          failFind \in BOOLEAN, failSanitize \in BOOLEAN :
        LET q0 == [Idle EXCEPT !.op = "updateBlog", !.blogId = id, !.title = title,
                               !.slug = slug, !.contentFile = cf, !.coverFile = cov]
            found == findUnique(id)
            q1 == [Logged(q0, "find", Null, TRUE) EXCEPT !.existing = found]
            checks == slug # "" /\ slug # found.slug
        IN  /\ ~(failFind /\ failSanitize)
            /\ failSanitize => /\ cf # NoFile /\ found # NoRow
                               /\ ~found.deletedAt /\ ~checks
            /\ started' = started + 1
            /\ IF failFind
               THEN Begin(r, updateBlog_catch(q0, "find", Null))
               ELSE IF found = NoRow \/ found.deletedAt
               THEN Begin(r, Respond(Logged(q0, "find", Null, TRUE), 404, NoRow))
               ELSE IF checks
               THEN Begin(r, [q1 EXCEPT !.pc = "su_slug"])
               ELSE Begin(r, slug_Prepared(q1, failSanitize))
    /\ UNCHANGED <<rows, nextId, store, detached, issued, call>>

\* the conflict check of a changed slug: findUnique({where: {slug}}) and
\* the 409
slug_updateBlog_slugExists(r) ==
    LET q == reqs[r]
    IN  /\ q.pc = "su_slug"
        /\ \E failFind \in BOOLEAN, failSanitize \in BOOLEAN :
            /\ ~(failFind /\ failSanitize)
            /\ failSanitize => q.contentFile # NoFile /\ ~SlugTaken(q.slug)
            /\ IF failFind
               THEN Step(r, updateBlog_catch(q, "find_slug", Null))
               ELSE IF SlugTaken(q.slug)
               THEN Step(r, Respond(Logged(q, "find_slug", Null, TRUE), 409, NoRow))
               ELSE Step(r, slug_Prepared(Logged(q, "find_slug", Null, TRUE), failSanitize))
        /\ UNCHANGED <<rows, nextId, store, started, detached, issued, call>>

\* prisma.blog.update({where: {id: blogId}, data: updateData}) and the 200;
\* the unique index rejects a slug another row holds
slug_updateBlog_update(r) ==
    LET q == reqs[r]
        new == slug_ApplyData(rows[q.blogId], q.updateData)
        clash == \E i \in DOMAIN rows : i # q.blogId /\ rows[i].slug = new.slug
    IN  /\ q.pc = "u_update"
        /\ \E fail \in BOOLEAN :
            /\ IF fail \/ q.blogId \notin DOMAIN rows \/ clash
               THEN /\ Step(r, updateBlog_catch(q, "update", Null))
                    /\ UNCHANGED rows
               ELSE /\ rows' = [rows EXCEPT ![q.blogId] = new]
                    /\ Step(r, Respond(Logged(q, "update", Null, TRUE), 200, new))
        /\ UNCHANGED <<nextId, store, started, detached, issued, call>>

\* the slug-keyed service on an empty table, or on one or two records with
\* their objects: record 1 under slug "a", live or soft-deleted, record 2
\* under slug "b"
InitSlug ==
    /\ \E population \in 0..2, del1 \in BOOLEAN :
        LET row1 == SeedRow(1, "a", "published", {"t1"},
                            CanonicalLocator(uploadBlogContentKey("a", HTML)), NoFile, del1)
            row2 == [SeedRow(2, "b", "published", {},
                             CanonicalLocator(uploadBlogContentKey("b", HTML)), NoFile, FALSE)
                     EXCEPT !.coverImageUrl =
                              CanonicalLocator(uploadBlogCoverImageKey("b", Banner.originalname))]
            st1 == uploadFile(<<>>, sanitizeHTMLToBuffer(<<"p">>),
                              uploadBlogContentKey("a", HTML))
            st2 == uploadFile(uploadFile(st1, sanitizeHTMLToBuffer(<<"p">>),
                                         uploadBlogContentKey("b", HTML)),
                              Banner.buffer,
                              uploadBlogCoverImageKey("b", Banner.originalname))
        IN  /\ population = 0 => ~del1
            /\ rows = CASE population = 0 -> <<>>
                        [] population = 1 -> <<row1>>
                        [] OTHER -> <<row1, row2>>
            /\ store = CASE population = 0 -> <<>>
                         [] population = 1 -> st1
                         [] OTHER -> st2
            /\ nextId = population + 1
    /\ reqs = [r \in Slots |-> Idle]
    /\ started = 0
    /\ detached = NoIncrements
    /\ issued = NoIncrements
    /\ call = NoCall

NextSlug ==
    \E r \in Slots :
        \/ slug_createBlog(r)
        \/ slug_createBlog_uploadContent(r)
        \/ slug_createBlog_uploadCover(r)
        \/ slug_createBlog_create(r)
        \/ slug_updateBlog(r)
        \/ slug_updateBlog_slugExists(r)
        \/ replaceBlogContent_fileExists(r)
        \/ replaceBlogContent_deleteFile(r)
        \/ replaceBlogContent_upload(r)
        \/ replaceBlogCoverImage_fileExists(r)
        \/ replaceBlogCoverImage_deleteFile(r)
        \/ replaceBlogCoverImage_upload(r)
        \/ slug_updateBlog_update(r)
        \/ deleteBlog(r)
        \/ deleteBlog_update(r)

SpecSlug == InitSlug /\ [][NextSlug]_vars

\* POST /api/blogs alone: every row beyond the initial ones is the work of a
\* createBlog
NextCreate ==
    \E r \in Slots :
        \/ slug_createBlog(r)
        \/ slug_createBlog_uploadContent(r)
        \/ slug_createBlog_uploadCover(r)
        \/ slug_createBlog_create(r)

SpecCreate == InitSlug /\ [][NextCreate]_vars

\* ----------------------------------------- the public routes, slug-keyed
\* req.query.status of GET /api/blogs: '' when the caller gives none
StatusParams == {"", "draft", "published"}

\* getBlogs' where without the status condition
slug_Listed_anyStatus(status, tags, search) == Listed(tags, search)

\* getBlogs' where: deletedAt null, status, tags hasSome, title contains
slug_Listed(status, tags, search) ==
    { i \in Listed(tags, search) : rows[i].status = status }

\* where: {status: 'published', deletedAt: null}
Published == { i \in NotDeleted : rows[i].status = "published" }

\* getBlogs: prisma.blog.findMany of the page; the count runs beside it
slug_getBlogs(r) ==
    /\ Arrives(r)
    /\ \E tags \in TagSets, search \in Queries, page \in Pages,
          limit \in PageLimits, given \in StatusParams, fail \in BOOLEAN :
        LET status == IF given = "" THEN "published" ELSE given
            q0 == [Idle EXCEPT !.op = "getBlogs", !.query = search, !.page = page,
                               !.limit = limit, !.statusParam = given,
                               !.status = status, !.tags = tags]
        IN  /\ started' = started + 1
            /\ IF fail
               THEN Begin(r, Respond(Logged(q0, "findMany", Null, FALSE), 500, NoRow))
               ELSE \E seq \in Descending(slug_Listed(status, tags, search), "createdAt") :
                      Begin(r, [Logged(q0, "findMany", Null, TRUE) EXCEPT
                                  !.results = slug_SelectedAll(Page(seq, (page - 1) * limit, limit)),
                                  !.pc = "sl_count"])
    /\ UNCHANGED <<rows, nextId, store, detached, issued, call>>

\* getBlogs: prisma.blog.count({where}) and the 200; the rows go out as read
slug_getBlogs_count(r) ==
    LET q == reqs[r]
    IN  /\ q.pc = "sl_count"
        /\ \E fail \in BOOLEAN :
            IF fail
            THEN Step(r, Respond(Logged(q, "count", Null, FALSE), 500, NoRow))
            ELSE Step(r, Respond(Logged(q, "count", Null, TRUE), 200,
                                 [items |-> q.results,
                                  total |-> Cardinality(slug_Listed(q.status, q.tags, q.query))]))
        /\ UNCHANGED <<rows, nextId, store, started, detached, issued, call>>

\* getBlogContent by slug: findUnique({where: {slug}}), the 404, the detached
\* increment, and the key of the content locator
slug_getBlogContent(r) ==
    /\ Arrives(r)
    /\ \E slug \in Slugs, fail \in BOOLEAN :
        LET id == findUniqueSlug(slug)
            q0 == [Idle EXCEPT !.op = "getBlogContent", !.slug = slug]
            q1 == [Logged(q0, "find", Null, TRUE) EXCEPT
                     !.blogId = id, !.existing = findUnique(id)]
        IN  /\ started' = started + 1
            /\ IF fail
               THEN /\ Begin(r, Respond(Logged(q0, "find", Null, FALSE), 500, NoRow))
                    /\ UNCHANGED <<detached, issued>>
               ELSE IF id = 0 \/ rows[id].deletedAt
               THEN /\ Begin(r, Respond(Logged(q0, "find", Null, TRUE), 404, NoRow))
                    /\ UNCHANGED <<detached, issued>>
               ELSE /\ Detach(id)
                    /\ IF IsFalsy(extractS3Key(rows[id].contentUrl))
                       THEN Begin(r, Respond(Logged(q1, "key", Null, FALSE), 500, NoRow))
                       ELSE Begin(r, [q1 EXCEPT !.pc = "g_send"])
    /\ UNCHANGED <<rows, nextId, store, call>>

\* getLatestBlogs: the limit check and findMany of the published rows
slug_getLatestBlogs(r) ==
    /\ Arrives(r)
    /\ \E limit \in FeedLimits, fail \in BOOLEAN :
        LET q0 == [Idle EXCEPT !.op = "getLatestBlogs", !.limit = limit]
        IN  /\ started' = started + 1
            /\ IF limit < 1 \/ limit > 50
               THEN Begin(r, Respond(q0, 400, NoRow))
               ELSE IF fail
               THEN Begin(r, Respond(Logged(q0, "findMany", Null, FALSE), 500, NoRow))
               ELSE \E seq \in Descending(Published, "createdAt") :
                      Begin(r, [Logged(q0, "findMany", Null, TRUE) EXCEPT
                                  !.results = slug_SelectedAll(Page(seq, 0, limit)),
                                  !.pc = "f_sign"])
    /\ UNCHANGED <<rows, nextId, store, detached, issued, call>>

\* getPopularBlogs: the limit check and findMany of the published rows, most
\* viewed first
slug_getPopularBlogs(r) ==
    /\ Arrives(r)
    /\ \E limit \in FeedLimits, fail \in BOOLEAN :
        LET q0 == [Idle EXCEPT !.op = "getPopularBlogs", !.limit = limit]
        IN  /\ started' = started + 1
            /\ IF limit < 1 \/ limit > 50
               THEN Begin(r, Respond(q0, 400, NoRow))
               ELSE IF fail
               THEN Begin(r, Respond(Logged(q0, "findMany", Null, FALSE), 500, NoRow))
               ELSE \E seq \in Descending(Published, "views") :
                      Begin(r, [Logged(q0, "findMany", Null, TRUE) EXCEPT
                                  !.results = slug_SelectedAll(Page(seq, 0, limit)),
                                  !.pc = "p_sign"])
    /\ UNCHANGED <<rows, nextId, store, detached, issued, call>>

\* the slug-keyed service with record 1 under slug "a", draft or published,
\* and record 2 under slug "b", published or archived, each live or
\* soft-deleted; or with record 2 permanently deleted
InitPublic ==
    /\ \E status1 \in {"draft", "published"}, del1 \in BOOLEAN,
          second \in {"none", "published", "archived"}, del2 \in BOOLEAN :
        LET row1 == [SeedRow(1, "a", status1, {"t1"},
                             CanonicalLocator(uploadBlogContentKey("a", HTML)), NoFile, del1)
                     EXCEPT !.coverImageUrl =
                              CanonicalLocator(uploadBlogCoverImageKey("a", Photo.originalname))]
            row2 == SeedRow(2, "b", second, {},
                            CanonicalLocator(uploadBlogContentKey("b", HTML)), NoFile, del2)
            st1 == uploadFile(uploadFile(<<>>, sanitizeHTMLToBuffer(<<"p">>),
                                         uploadBlogContentKey("a", HTML)),
                              Photo.buffer, uploadBlogCoverImageKey("a", Photo.originalname))
        IN  /\ second = "none" => ~del2
            /\ rows = IF second = "none" THEN <<row1>> ELSE <<row1, row2>>
            /\ store = IF second = "none" THEN st1
                       ELSE uploadFile(st1, sanitizeHTMLToBuffer(<<"p">>),
                                       uploadBlogContentKey("b", HTML))
    /\ nextId = 3
    /\ reqs = [r \in Slots |-> Idle]
    /\ started = 0
    /\ detached = NoIncrements
    /\ issued = NoIncrements
    /\ call = NoCall

NextPublic ==
    \/ \E r \in Slots :
        \/ slug_getBlogs(r)
        \/ slug_getBlogs_count(r)
        \/ getBlogBySlug(r)
        \/ slug_getBlogContent(r)
        \/ getBlogContent_send(r)
        \/ getBlogContent_sign(r)
        \/ slug_getLatestBlogs(r)
        \/ getLatestBlogs_sign(r)
        \/ slug_getPopularBlogs(r)
        \/ getPopularBlogs_sign(r)
        \/ searchBlogsController(r)
        \/ searchBlogs_count(r)
        \/ searchBlogsController_sign(r)
        \/ deleteBlog(r)
        \/ deleteBlog_update(r)
    \/ \E id \in Ids : incrementViews(id)

SpecPublic == InitPublic /\ [][NextPublic]_vars

\* -------------------------------------------- records that are gone
\* the slug-keyed service with the live record 1 under slug "a" and a
\* record 2 under slug "b" that was soft-deleted, or permanently deleted
InitGone ==
    /\ \E second \in {"none", "deleted"} :
        LET row1 == [SeedRow(1, "a", "published", {"t1"},
                             CanonicalLocator(uploadBlogContentKey("a", HTML)), NoFile, FALSE)
                     EXCEPT !.coverImageUrl =
                              CanonicalLocator(uploadBlogCoverImageKey("a", Photo.originalname))]
            row2 == SeedRow(2, "b", "published", {},
                            CanonicalLocator(uploadBlogContentKey("b", HTML)), NoFile, TRUE)
            st1 == uploadFile(uploadFile(<<>>, sanitizeHTMLToBuffer(<<"p">>),
                                         uploadBlogContentKey("a", HTML)),
                              Photo.buffer, uploadBlogCoverImageKey("a", Photo.originalname))
        IN  /\ rows = IF second = "none" THEN <<row1>> ELSE <<row1, row2>>
            /\ store = IF second = "none" THEN st1
                       ELSE uploadFile(st1, sanitizeHTMLToBuffer(<<"p">>),
                                       uploadBlogContentKey("b", HTML))
    /\ nextId = 3
    /\ reqs = [r \in Slots |-> Idle]
    /\ started = 0
    /\ detached = NoIncrements
    /\ issued = NoIncrements
    /\ call = NoCall

NextGone ==
    \/ \E r \in Slots :
        \/ getBlogById(r)
        \/ getBlogBySlug(r)
        \/ slug_getBlogContent(r)
        \/ getBlogContent_send(r)
        \/ getBlogContent_sign(r)
        \/ slug_updateBlog(r)
        \/ slug_updateBlog_slugExists(r)
        \/ replaceBlogContent_fileExists(r)
        \/ replaceBlogContent_deleteFile(r)
        \/ replaceBlogContent_upload(r)
        \/ replaceBlogCoverImage_fileExists(r)
        \/ replaceBlogCoverImage_deleteFile(r)
        \/ replaceBlogCoverImage_upload(r)
        \/ slug_updateBlog_update(r)
        \/ deleteBlog(r)
        \/ deleteBlog_update(r)
    \/ \E id \in Ids : incrementViews(id)

SpecGone == InitGone /\ [][NextGone]_vars

\* ---------------------------------------------------------------------------
\* The middleware in front of the mutating routes (routes/blogRoutes.js,
\* middleware/validateRequest.js).  A request is the part of an HTTP request
\* the chain looks at: the X-API-Key header, the :id parameter, the multer
\* files and the validated body fields.  Lengths and sizes stand for the
\* strings and buffers they measure; Absent is a field that was not sent.

ADMIN_API_KEY == "secret"

Absent == 0 - 1

MAX_FILE_SIZE == 10485760

Routes == {"POST /", "PUT /:id", "DELETE /:id", "DELETE /:id/permanent"}

\* the requests tried on a route: the header absent, right or wrong; files as
\* multer hands them on (req.files.content[0], req.files.cover[0])
Requests(route) ==
    LET ApiKeys == {"", "secret", "wrong"}
        contentFiles ==
            { [mimetype |-> DOCX, ext |-> "docx", size |-> 1],
              [mimetype |-> HTML, ext |-> "docx", size |-> 1],
              [mimetype |-> DOCX, ext |-> "doc",  size |-> 1],
              [mimetype |-> DOCX, ext |-> "docx", size |-> MAX_FILE_SIZE + 1] }
        coverFiles ==
            { [mimetype |-> <<"image", "png">>, size |-> 1],
              [mimetype |-> <<"image", "gif">>, size |-> 1],
              [mimetype |-> <<"image", "png">>, size |-> MAX_FILE_SIZE + 1] }
        Request(key, id, content, cover, titleLen, readTime) ==
            [apiKey |-> key, id |-> id,
             files |-> [content |-> content, cover |-> cover],
             titleLen |-> titleLen, readTime |-> readTime]
    IN  IF route = "POST /"
        THEN { Request(k, 0, c, v, t, rt) :
                 k \in ApiKeys, c \in contentFiles \cup {NoFile},
                 v \in coverFiles \cup {NoFile}, t \in {Absent, 2, 3},
                 rt \in {Absent, 0} }
        ELSE IF route = "PUT /:id"
        THEN { Request(k, id, c, NoFile, t, rt) :
                 k \in ApiKeys, id \in 0..MaxId,
                 c \in {NoFile, [mimetype |-> HTML, ext |-> "html", size |-> 1]},
                 t \in {Absent, 201}, rt \in {Absent, 5} }
        ELSE { Request(k, id, NoFile, NoFile, Absent, Absent) :
                 k \in ApiKeys, id \in 0..MaxId }

\* a middleware answers with a status, or calls next()
next == 0

\* the shared-secret check: 401 unless the header carries the configured key
requireApiKey(req) == IF req.apiKey = ADMIN_API_KEY THEN next ELSE 401

validateFileUpload(req) ==
    LET maxFileSize == MAX_FILE_SIZE
        contentFile == req.files.content
        coverFile   == req.files.cover
        allowedContentTypes == {DOCX}
        allowedImageTypes ==
            {<<"image", "jpeg">>, <<"image", "png">>, <<"image", "webp">>}
    IN  IF contentFile = NoFile THEN 400
        ELSE IF contentFile.mimetype \notin allowedContentTypes THEN 400
        ELSE IF contentFile.ext # "docx" THEN 400
        ELSE IF contentFile.size > maxFileSize THEN 400
        ELSE IF coverFile # NoFile /\ coverFile.mimetype \notin allowedImageTypes
        THEN 400
        ELSE IF coverFile # NoFile /\ coverFile.size > maxFileSize THEN 400
        ELSE next

handleValidationErrors_lenient(errors) == next

\* errors: validationResult(req), the fields that failed their rules
handleValidationErrors(errors) == IF errors # {} THEN 400 ELSE next

validateCreateBlog(req) ==
    handleValidationErrors(
        (IF req.titleLen >= 3 /\ req.titleLen <= 200 THEN {} ELSE {"title"})
        \cup (IF req.readTime = Absent \/ req.readTime >= 1 THEN {} ELSE {"readTime"}))

validateUpdateBlog(req) ==
    handleValidationErrors(
        (IF req.id >= 1 THEN {} ELSE {"id"})
        \cup (IF req.titleLen = Absent \/ (req.titleLen >= 3 /\ req.titleLen <= 200)
              THEN {} ELSE {"title"})
        \cup (IF req.readTime = Absent \/ req.readTime >= 1 THEN {} ELSE {"readTime"}))

validateBlogId(req) ==
    handleValidationErrors(IF req.id >= 1 THEN {} ELSE {"id"})

\* the handlers registered before the controller, in order, and what the
\* chain answers: the status of the first one that does not call next()
router(route, req) ==
    LET chain ==
            IF route = "POST /"
            THEN <<requireApiKey(req), validateFileUpload(req), validateCreateBlog(req)>>
            ELSE IF route = "PUT /:id"
            THEN <<requireApiKey(req), validateUpdateBlog(req)>>
            ELSE <<requireApiKey(req), validateBlogId(req)>>
        stopped == { i \in 1..Len(chain) : chain[i] # next }
    IN  IF stopped = {} THEN next
        ELSE chain[CHOOSE i \in stopped : \A j \in stopped : i <= j]

\* a request enters a mutating route and runs its middleware; the response
\* slot holds next when the controller is about to be called
route_middleware(r) ==
    /\ Arrives(r)
    /\ \E route \in Routes :
         \E req \in Requests(route) :
            Begin(r, Respond([Idle EXCEPT !.op = route, !.request = req],
                             router(route, req), NoRow))
    /\ started' = started + 1
    /\ UNCHANGED <<rows, nextId, store, detached, issued, call>>

\* the controller is called by the chain of its route, with what passed it
Admitted(r, route) ==
    /\ reqs[r].pc = "done"
    /\ reqs[r].op = route
    /\ reqs[r].resp = next

\* the controller reads the files and the :id of the request that passed
NextGate ==
    \E r \in Slots :
        \/ route_middleware(r)
        \/ /\ Admitted(r, "POST /")
           /\ createBlog(r)
           /\ reqs'[r].contentFile.mimetype = reqs[r].request.files.content.mimetype
        \/ createBlog_uploadContent(r)
        \/ createBlog_uploadCover(r)
        \/ createBlog_update(r)
        \/ /\ Admitted(r, "PUT /:id")
           /\ updateBlog(r)
           /\ reqs'[r].blogId = reqs[r].request.id
        \/ replaceBlogContent_fileExists(r)
        \/ replaceBlogContent_deleteFile(r)
        \/ replaceBlogContent_upload(r)
        \/ replaceBlogCoverImage_fileExists(r)
        \/ replaceBlogCoverImage_deleteFile(r)
        \/ replaceBlogCoverImage_upload(r)
        \/ updateBlog_update(r)
        \/ /\ Admitted(r, "DELETE /:id")
           /\ deleteBlog(r)
           /\ reqs'[r].blogId = reqs[r].request.id
        \/ deleteBlog_update(r)
        \/ /\ Admitted(r, "DELETE /:id/permanent")
           /\ permanentDeleteBlog(r)
           /\ reqs'[r].blogId = reqs[r].request.id
        \/ deleteBlogFiles_fileExists(r)
        \/ deleteBlogFiles_deleteFile(r)
        \/ permanentDeleteBlog_delete(r)

SpecGate == Init /\ [][NextGate]_vars

\* ------------------------------------------- the key codec and the issuer
\* the longest locator handed to the codec, in "/"-separated segments
MaxLen == 4

\* the segments locators are made of
Segments ==
    {"s3:", "", S3_BUCKET, "https:", "cdn.example.com",
     "bkt.s3.ap-south-1.amazonaws.com", "blogs", "placeholder"}

\* every locator of up to MaxLen segments; <<>> is null, <<"">> the empty string
Locators == UNION { [1..n -> Segments] : n \in 0..MaxLen }

\* blog ids a key is derived for
CodecIds == 1..(MaxId + 1)

\* originalFilename of a content upload, in "/"-separated segments
ContentNames ==
    {HTML, DOCX, <<"post.html">>, <<"bkt.s3.ap-south-1.amazonaws.com", "x">>}

\* originalName of a cover upload, in "."-separated parts
CoverNames == {<<"photo", "jpg">>, <<"banner", "png">>, <<"cover">>}

Shapes == {"s3", "cdn", "https"}

\* `https://${S3_BUCKET}.s3.${region}.amazonaws.com`
ProviderUrl == <<"https:", "", "bkt.s3.ap-south-1.amazonaws.com">>

\* the three representations of an object's location
Representation(key, shape) ==
    IF shape = "s3" THEN CanonicalLocator(key)
    ELSE IF shape = "cdn" THEN S3_CDN_URL \o key
    ELSE ProviderUrl \o key

\* each behaviour is one call of a function on one input, or an upload
\* followed by the extraction of the key from what it returned

\* extractKeyFromUrl(url) on any locator
call_extractKeyFromUrl ==
    /\ call = NoCall
    /\ \E url \in Locators :
        call' = [fn |-> "extractKeyFromUrl", arg |-> url, key |-> Null,
                 result |-> extractKeyFromUrl(url)]
    /\ UNCHANGED <<rows, nextId, store, reqs, started, detached, issued>>

\* extractS3Key(contentUrl) on any locator
call_extractS3Key ==
    /\ call = NoCall
    /\ \E url \in Locators :
        call' = [fn |-> "extractS3Key", arg |-> url, key |-> Null,
                 result |-> extractS3Key(url)]
    /\ UNCHANGED <<rows, nextId, store, reqs, started, detached, issued>>

\* generatePresignedUrl(s3Url) on any locator, the signer failing or not
call_generatePresignedUrl ==
    /\ call = NoCall
    /\ \E url \in Locators, signerFails \in BOOLEAN :
        call' = [fn |-> "generatePresignedUrl", arg |-> url,
                 signerFails |-> signerFails,
                 result |-> generatePresignedUrl(url, signerFails)]
    /\ UNCHANGED <<rows, nextId, store, reqs, started, detached, issued>>

\* uploadBlogContent: the derived key and the locator uploadFile returns
call_uploadBlogContent ==
    /\ call = NoCall
    /\ \E blogId \in CodecIds, originalFilename \in ContentNames :
        LET key == uploadBlogContentKey(blogId, originalFilename)
        IN  call' = [fn |-> "uploadBlogContent", key |-> key,
                     result |-> CanonicalLocator(key)]
    /\ UNCHANGED <<rows, nextId, store, reqs, started, detached, issued>>

\* uploadBlogCoverImage: the derived key and the locator uploadFile returns
call_uploadBlogCoverImage ==
    /\ call = NoCall
    /\ \E blogId \in CodecIds, originalName \in CoverNames :
        LET key == uploadBlogCoverImageKey(blogId, originalName)
        IN  call' = [fn |-> "uploadBlogCoverImage", key |-> key,
                     result |-> CanonicalLocator(key)]
    /\ UNCHANGED <<rows, nextId, store, reqs, started, detached, issued>>

\* extractKeyFromUrl on the locator an upload returned, or on the CDN or
\* provider URL of the same object
call_extractUploaded ==
    /\ call.fn \in {"uploadBlogContent", "uploadBlogCoverImage"}
    /\ \E shape \in Shapes :
        LET url == IF shape = "s3" THEN call.result
                   ELSE Representation(call.key, shape)
        IN  call' = [fn |-> "extractKeyFromUrl", arg |-> url, key |-> call.key,
                     result |-> extractKeyFromUrl(url)]
    /\ UNCHANGED <<rows, nextId, store, reqs, started, detached, issued>>

InitCodec ==
    /\ rows = <<>>
    /\ nextId = 1
    /\ store = <<>>
    /\ reqs = [r \in Slots |-> Idle]
    /\ started = 0
    /\ detached = NoIncrements
    /\ issued = NoIncrements
    /\ call = NoCall

NextCodec ==
    \/ call_extractKeyFromUrl
    \/ call_extractS3Key
    \/ call_generatePresignedUrl
    \/ call_uploadBlogContent
    \/ call_uploadBlogCoverImage
    \/ call_extractUploaded

SpecCodec == InitCodec /\ [][NextCodec]_vars



\* =================================================================
\* Properties
\* =================================================================
Finished(q) == q.pc = "done"

\* indices of the log entries of q with operation op
At(q, op) == { i \in 1..Len(q.log) : q.log[i].op = op }

Failed(q, ops) == { i \in 1..Len(q.log) : q.log[i].op \in ops /\ ~q.log[i].ok }

Did(q, op) == { i \in At(q, op) : q.log[i].ok }

\* a create, update or permanent delete of record id is in progress
InProgress(id) ==
    \E r \in Slots : /\ Active(reqs[r])
                     /\ reqs[r].op \in {"createBlog", "updateBlog", "permanentDeleteBlog"}
                     /\ reqs[r].blogId = id

\* the locator resolves to a key whose object is in the blob store
Resolves(url) == /\ ~IsFalsy(extractKeyFromUrl(url))
                 /\ fileExists(store, extractKeyFromUrl(url))

\* C1: whenever no create, update or permanent delete of a record is in
\* progress, each non-null locator of the record resolves to a key whose
\* object exists in the blob store, also after requests that ended in an error
C1_LocatorsResolve ==
    \A id \in DOMAIN rows :
        ~InProgress(id) =>
            /\ Resolves(rows[id].contentUrl)
            /\ rows[id].coverImageUrl # Null => Resolves(rows[id].coverImageUrl)

PrimaryOps == {"create", "sanitize", "put_content", "put_cover", "update"}

\* C2: in createBlog and updateBlog a failed primary write step (insert,
\* sanitizer, content upload, cover upload, final update) is the last thing
\* the request does and the answer is 500; no primary step runs twice; a 201
\* of createBlog never carries the placeholder locator
C2_PrimaryFailurePropagates ==
    \A r \in Slots :
        LET q == reqs[r]
        IN  q.op \in {"createBlog", "updateBlog"} =>
              /\ \A i \in Failed(q, PrimaryOps) :
                    i = Len(q.log) /\ Finished(q) /\ q.resp = 500
              /\ \A op \in PrimaryOps : Cardinality(At(q, op)) <= 1
              /\ (q.op = "createBlog" /\ q.resp = 201) =>
                    /\ q.data # NoRow
                    /\ q.data.contentUrl # PLACEHOLDER
                    /\ Failed(q, PrimaryOps) = {}

\* a createBlog whose content upload raised has answered 500
C2_Witness ==
    \E r \in Slots : /\ reqs[r].op = "createBlog"
                     /\ Failed(reqs[r], {"put_content"}) # {}
                     /\ reqs[r].resp = 500

\* slot r has just taken the step that appended a successful op entry
Took(r, op) ==
    /\ Active(reqs[r])
    /\ Len(reqs'[r].log) = Len(reqs[r].log) + 1
    /\ reqs'[r].log[Len(reqs'[r].log)].op = op
    /\ reqs'[r].log[Len(reqs'[r].log)].ok

\* C3: whenever createBlog or updateBlog puts a content object, the object
\* holds the sanitizer's output for the bytes that request uploaded, and when
\* a createBlog that ran alone answers 201 the row's content locator resolves
\* to the sanitized upload
C3_OnlySanitizedContentStored ==
    [][\A r \in Slots :
          /\ Took(r, "put_content") =>
                LET key == reqs'[r].log[Len(reqs'[r].log)].key
                IN  /\ fileExists(store', key)
                    /\ store'[key] = sanitizeHTMLToBuffer(reqs[r].contentFile.buffer)
          /\ (Took(r, "update") /\ reqs'[r].op = "createBlog" /\ reqs'[r].solo) =>
                LET url == rows'[reqs'[r].blogId].contentUrl
                IN  /\ reqs'[r].resp = 201
                    /\ ~IsFalsy(extractKeyFromUrl(url))
                    /\ fileExists(store', extractKeyFromUrl(url))
                    /\ store'[extractKeyFromUrl(url)]
                         = sanitizeHTMLToBuffer(reqs[r].contentFile.buffer)
    ]_vars

\* a createBlog that uploaded a document with a script tag has answered 201
C3_Witness ==
    \E r \in Slots : /\ reqs[r].op = "createBlog"
                     /\ reqs[r].resp = 201
                     /\ reqs[r].solo
                     /\ \E i \in 1..Len(reqs[r].contentFile.buffer) :
                            reqs[r].contentFile.buffer[i] = "script"
                     /\ Did(reqs[r], "put_content") # {}

SlotNames == {"content", "cover"}

Supplied(q, slot) == IF slot = "content" THEN q.contentFile # NoFile
                     ELSE q.coverFile # NoFile

\* C4: in updateBlog the probe and the delete of a slot's current object come
\* before the upload of the slot's new object: every upload of a slot whose
\* current locator yields a key follows a probe of that key, a delete comes
\* only between the probe and the upload, and nothing of the slot's cleanup
\* follows the upload
C4_DeleteBeforeUpload ==
    \A r \in Slots :
        LET q == reqs[r]
        IN  q.op = "updateBlog" =>
              \A slot \in SlotNames :
                \A j \in At(q, "put_" \o slot) :
                  /\ \A i \in At(q, "head_" \o slot) \cup At(q, "del_" \o slot) : i < j
                  /\ ~IsFalsy(extractKeyFromUrl(OldUrl(q, slot))) =>
                        \E i \in Did(q, "head_" \o slot) :
                            /\ i < j
                            /\ q.log[i].key = extractKeyFromUrl(OldUrl(q, slot))
                  /\ \A d \in At(q, "del_" \o slot) :
                        \E i \in Did(q, "head_" \o slot) : i < d

\* an updateBlog has probed, deleted and then uploaded its content slot
C4_Witness ==
    \E r \in Slots :
        /\ reqs[r].op = "updateBlog"
        /\ \E i \in Did(reqs[r], "head_content"), d \in Did(reqs[r], "del_content"),
              j \in Did(reqs[r], "put_content") : i < d /\ d < j

CleanupOps == {"head_content", "del_content", "head_cover", "del_cover"}

\* C5: in updateBlog a raise of the old object's probe or delete is absorbed:
\* the request still uploads the new object, updates the row and answers 200
C5_CleanupFailureAbsorbed ==
    \A r \in Slots :
        LET q == reqs[r]
        IN  (q.op = "updateBlog" /\ Finished(q) /\ Failed(q, CleanupOps) # {}
               /\ Failed(q, PrimaryOps \cup {"find"}) = {}) =>
              /\ q.resp = 200
              /\ \A slot \in SlotNames : Supplied(q, slot) => Did(q, "put_" \o slot) # {}

\* C6: an updateBlog that ran alone, answered 200 and replaced an existing
\* content object under a different derived key leaves the old key absent, the
\* new key present and contentUrl the canonical locator of the new key
C6_ContentReplaced ==
    \A r \in Slots :
        LET q == reqs[r]
            oldKey == extractKeyFromUrl(q.existing.contentUrl)
            newKey == uploadBlogContentKey(q.blogId, q.contentFile.mimetype)
        IN  (q.op = "updateBlog" /\ Finished(q) /\ q.resp = 200 /\ q.solo
               /\ q.contentFile # NoFile
               /\ Did(q, "del_content") # {}
               /\ newKey # oldKey) =>
              /\ ~fileExists(store, oldKey)
              /\ fileExists(store, newKey)
              /\ store[newKey] = sanitizeHTMLToBuffer(q.contentFile.buffer)
              /\ rows[q.blogId].contentUrl = CanonicalLocator(newKey)

\* an updateBlog has replaced the content of a record under another key
C6_Witness ==
    \E r \in Slots :
        LET q == reqs[r]
        IN  /\ q.op = "updateBlog" /\ Finished(q) /\ q.resp = 200 /\ q.solo
            /\ q.contentFile # NoFile
            /\ Did(q, "del_content") # {}
            /\ uploadBlogContentKey(q.blogId, q.contentFile.mimetype)
                 # extractKeyFromUrl(q.existing.contentUrl)

\* C7: updateBlog writes the row at most once, as the last thing it does and
\* after the upload of every supplied slot; a request in which a slot's
\* replacement failed has not written the row, and when it ran alone the row
\* is the one it read
C7_SingleRowWrite ==
    \A r \in Slots :
        LET q == reqs[r]
        IN  q.op = "updateBlog" =>
              /\ Cardinality(At(q, "update")) <= 1
              /\ \A i \in At(q, "update") :
                    /\ i = Len(q.log)
                    /\ \A slot \in SlotNames :
                          Supplied(q, slot) => \E j \in Did(q, "put_" \o slot) : j < i
              /\ Failed(q, CleanupOps \cup {"put_content", "put_cover"}) # {} =>
                    /\ At(q, "update") = {}
                    /\ Finished(q) /\ q.resp = 500
                    /\ q.solo => (q.blogId \in DOMAIN rows /\ rows[q.blogId] = q.existing)
              /\ (Active(q) /\ q.solo) =>
                    (q.blogId \in DOMAIN rows /\ rows[q.blogId] = q.existing)

\* an updateBlog that supplied both files has written the row
C7_Witness ==
    \E r \in Slots :
        LET q == reqs[r]
        IN  /\ q.op = "updateBlog" /\ q.resp = 200
            /\ Supplied(q, "content") /\ Supplied(q, "cover")
            /\ Did(q, "update") # {}
            /\ rows[q.blogId] # q.existing

\* C8: permanentDeleteBlog on an existing record removes the row after the
\* cleanup, whatever the cleanup did: the row delete is the last call and
\* follows every cleanup call, a raise in the cleanup is followed by the row
\* delete, a 500 comes only from a record-store call, and after a 200 the row
\* is gone - also for a row whose content locator resolves to no key
C8_RowRemovedAfterCleanup ==
    \A r \in Slots :
        LET q == reqs[r]
        IN  q.op = "permanentDeleteBlog" =>
              /\ \A i \in At(q, "delete") : i = Len(q.log)
              /\ (Finished(q) /\ q.existing # NoRow) => At(q, "delete") # {}
              /\ (Finished(q) /\ q.resp = 500) => Failed(q, {"find", "delete"}) # {}
              /\ (Finished(q) /\ Failed(q, {"find", "delete"}) = {} /\ q.existing # NoRow) =>
                    /\ q.resp = 200
                    /\ q.blogId \notin DOMAIN rows

\* a permanentDeleteBlog whose cleanup raised has removed the row
C8_Witness ==
    \E r \in Slots :
        LET q == reqs[r]
        IN  /\ q.op = "permanentDeleteBlog" /\ Finished(q) /\ q.resp = 200
            /\ Failed(q, {"head", "del"}) # {}
            /\ q.blogId \notin DOMAIN rows

\* a permanentDeleteBlog has removed a row whose content locator was the
\* placeholder
C8_WitnessUnresolvable ==
    \E r \in Slots :
        LET q == reqs[r]
        IN  /\ q.op = "permanentDeleteBlog" /\ Finished(q) /\ q.resp = 200
            /\ q.existing # NoRow
            /\ IsFalsy(extractKeyFromUrl(q.existing.contentUrl))

\* C9: in deleteBlogFiles every candidate key gets its own attempt: once the
\* cleanup is over every candidate key has been probed, also when the probe or
\* the delete of an earlier candidate raised
C9_EveryCandidateAttempted ==
    \A r \in Slots :
        LET q == reqs[r]
        IN  (q.op = "permanentDeleteBlog" /\ At(q, "delete") # {}) =>
              \A k \in 1..Len(q.keys) :
                  \E i \in At(q, "head") : q.log[i].key = q.keys[k]

\* C10: after a permanentDeleteBlog that ran alone, met no failing call and
\* answered 200, no object that the record's contentUrl or coverImageUrl
\* referred to is left in the blob store
C10_NoBlobLeft ==
    \A r \in Slots :
        LET q == reqs[r]
        IN  (q.op = "permanentDeleteBlog" /\ Finished(q) /\ q.resp = 200 /\ q.solo
               /\ Failed(q, {"find", "head", "del", "delete"}) = {}) =>
              \A url \in {q.existing.contentUrl, q.existing.coverImageUrl} :
                  ~IsFalsy(extractKeyFromUrl(url)) =>
                      ~fileExists(store, extractKeyFromUrl(url))

\* ----------------------------------------------------------- read claims
ListOps == {"getBlogs", "searchBlogsController", "getLatestBlogs", "getPopularBlogs"}

FetchOps == {"getBlogById", "getBlogBySlug"}

SingleOps == FetchOps \cup {"getBlogContent"}

\* the request in slot r starts with this step
Arrived(r) == /\ started' = started + 1
              /\ ~Active(reqs[r])
              /\ reqs'[r].pc # "idle"

\* the record a single-record read names, 0 when the slug has no row
Target(q) == IF q.op = "getBlogBySlug" THEN findUniqueSlug(q.slug) ELSE q.blogId

SoftDeleted(id) == id \in DOMAIN rows /\ rows[id].deletedAt

ItemIds(items) == [i \in 1..Len(items) |-> items[i].id]

\* C11: a read that starts once a record is soft-deleted does not return it:
\* the rows a list, feed or search query reads leave it out and the response
\* carries exactly the rows read; a single-record read of it answers 404
\* (500 when the lookup itself failed)
C11_SoftDeletedInvisible ==
    [][\A r \in Slots :
         LET q == reqs'[r]
         IN  /\ (Arrived(r) /\ q.op \in ListOps) =>
                   \A i \in 1..Len(q.results) : ~SoftDeleted(q.results[i].id)
             /\ (Arrived(r) /\ q.op \in SingleOps /\ SoftDeleted(Target(q))) =>
                   /\ Finished(q)
                   /\ q.resp = 404 \/ (q.resp = 500 /\ Failed(q, {"find"}) # {})
             /\ (q.op \in ListOps /\ Finished(q) /\ q.resp = 200) =>
                   ItemIds(q.data.items) = ItemIds(q.results)]_vars

\* a feed answered 200 with a record while another record is soft-deleted, or
\* a single-record read of a soft-deleted record answered 404
C11_Witness ==
    \E r \in Slots :
        /\ Finished(reqs[r])
        /\ \/ /\ reqs[r].op = "getPopularBlogs"
              /\ reqs[r].resp = 200
              /\ Len(reqs[r].data.items) = 1
              /\ \E id \in DOMAIN rows : rows[id].deletedAt /\ rows[id].status = "published"
           \/ /\ reqs[r].op = "getBlogContent"
              /\ SoftDeleted(reqs[r].blogId)
              /\ reqs[r].resp = 404

Conflict(q, op) == \/ q.resp = 409
                   \/ q.resp = 500 /\ Failed(q, {op}) # {}

\* C13: a createBlog that arrives while a row, soft-deleted or not, holds its
\* slug ends at once with 409 (500 when the lookup itself failed) and writes
\* neither store; so does the conflict check of an updateBlog that renames a
\* record to a slug a row holds, before the request has written anything; a
\* createBlog that met no failure ends with 201 or 409, and a 201 inserts the
\* row under a slug no row held
C13_DuplicateSlugRejected ==
    [][\A r \in Slots :
         LET q == reqs[r]
             q2 == reqs'[r]
         IN  /\ (Arrived(r) /\ q2.op = "createBlog" /\ SlugIndexed(q2.slug)) =>
                   /\ Finished(q2) /\ Conflict(q2, "find")
                   /\ rows' = rows /\ store' = store
             /\ (q.pc = "su_slug" /\ q2.pc # "su_slug" /\ SlugIndexed(q.slug)) =>
                   /\ Finished(q2) /\ Conflict(q2, "find_slug")
                   /\ rows' = rows /\ store' = store
                   /\ \A i \in 1..Len(q.log) : q.log[i].op = "find"
             /\ (q2.op = "createBlog" /\ Finished(q2) /\ ~Finished(q)) =>
                   /\ Failed(q2, {"find", "sanitize", "put_content", "put_cover", "create"}) = {}
                        => q2.resp \in {201, 409}
                   /\ q2.resp = 201 =>
                        /\ ~SlugIndexed(q2.slug)
                        /\ DOMAIN rows' = DOMAIN rows \cup {q2.blogId}
                        /\ rows'[q2.blogId].slug = q2.slug]_vars

\* a createBlog answered 409 on the slug of a soft-deleted row
C13_Witness ==
    \E r \in Slots :
        /\ reqs[r].op = "createBlog" /\ Finished(reqs[r]) /\ reqs[r].resp = 409
        /\ SlugIndexed(reqs[r].slug)
        /\ rows[findUniqueSlug(reqs[r].slug)].deletedAt

\* ------------------------------------------------------------ view counts
\* C14 as stated: every single-record read answered 200 carries the views
\* value stored when the record was read
C14_ReadsReturnStoredViews ==
    \A r \in Slots :
        LET q == reqs[r]
        IN  (q.op \in SingleOps /\ Finished(q) /\ q.resp = 200) =>
                q.data.views = q.existing.views

\* C14 amended: getBlogById and getBlogBySlug answer with the views value
\* stored when the record was read, and when the answer is out the row still
\* holds that value and the increment of this read is still in flight;
\* getBlogContent answers with the value it read plus one
C14_ViewsInPayload ==
    \A r \in Slots :
        LET q == reqs[r]
        IN  (q.op \in SingleOps /\ Finished(q) /\ q.resp = 200) =>
              /\ q.op \in FetchOps =>
                    /\ q.data.views = q.existing.views
                    /\ q.data.views = rows[q.blogId].views
                    /\ Count(detached, q.blogId) >= 1
              /\ q.op = "getBlogContent" => q.data.views = q.existing.views + 1

\* getBlogContent answered 200 with views 1 while the row still holds 0 and
\* the increment is in flight
C14_Witness ==
    \E r \in Slots :
        /\ reqs[r].op = "getBlogContent" /\ Finished(reqs[r]) /\ reqs[r].resp = 200
        /\ reqs[r].data.views = 1
        /\ rows[reqs[r].blogId].views = 0
        /\ Count(detached, reqs[r].blogId) = 1

Records(q) == IF q.op \in ListOps
              THEN { q.data.items[i] : i \in 1..Len(q.data.items) }
              ELSE { q.data }

\* C16: no 200 of getBlogs, getBlogById, getBlogBySlug, getLatestBlogs,
\* getPopularBlogs or searchBlogsController carries a stored locator: every
\* non-null contentUrl and coverImageUrl in it came from the URL issuer
C16_NoStoredLocatorInResponse ==
    \A r \in Slots :
        LET q == reqs[r]
        IN  (q.op \in ListOps \cup FetchOps /\ Finished(q) /\ q.resp = 200) =>
              \A rec \in Records(q) :
                  /\ ~IsFalsy(rec.contentUrl) => IsSignedUrl(rec.contentUrl)
                  /\ ~IsFalsy(rec.coverImageUrl) => IsSignedUrl(rec.coverImageUrl)

SigningOps == {"searchBlogsController", "getLatestBlogs", "getPopularBlogs"}

\* the other locator field of a record
Other(field) == IF field = "contentUrl" THEN "coverImageUrl" ELSE "contentUrl"

\* C17: where responses are signed, a signing failure for one locator field
\* of a record nulls that field only: the record's other locator is still
\* signed, the other records are signed, and the request answers 200
C17_SigningFailureIsolated ==
    \A r \in Slots :
        LET q == reqs[r]
        IN  /\ (q.op \in SigningOps /\ Finished(q) /\ Len(q.signFailed) > 0) =>
                 /\ q.resp = 200
                 /\ \A i \in 1..Len(q.signFailed) :
                      /\ q.signFailed[i] # "none" =>
                            q.data.items[i][q.signFailed[i]] = Null
                      /\ \A f \in {"contentUrl", "coverImageUrl"} :
                            (f # q.signFailed[i] /\ ~IsFalsy(q.results[i][f])) =>
                                IsSignedUrl(q.data.items[i][f])
            /\ (q.op = "getBlogContent" /\ Finished(q) /\ Len(q.signFailed) > 0) =>
                 /\ q.resp = 200
                 /\ q.data.coverImageUrl = Null

\* ------------------------------------------------------------ the issuer
\* C18 as stated: generatePresignedUrl raises for every locator from which
\* extractS3Key extracts no key, and signs only keys extractS3Key returned
C18_UnresolvableLocatorRaises ==
    call.fn = "generatePresignedUrl" =>
        /\ IsFalsy(extractS3Key(call.arg)) => ~call.result.ok
        /\ call.result.ok => call.result.url = getSignedUrl(extractS3Key(call.arg))

\* C18 amended: generatePresignedUrl raises exactly when the locator is null
\* or empty or the signer fails; otherwise it signs the key extractS3Key
\* returns, and the locator itself when extractS3Key returns none
C18_IssuerSignsKeyOrLocator ==
    call.fn = "generatePresignedUrl" =>
        /\ ~call.result.ok <=> (IsFalsy(call.arg) \/ call.signerFails)
        /\ call.result.ok =>
              call.result.url =
                  getSignedUrl(IF IsFalsy(extractS3Key(call.arg)) THEN call.arg
                               ELSE extractS3Key(call.arg))

\* the placeholder, from which no key is extracted, signed as a key
C18_Witness ==
    /\ call.fn = "generatePresignedUrl"
    /\ call.arg = PLACEHOLDER
    /\ extractS3Key(call.arg) = Null
    /\ call.result = Issued(getSignedUrl(PLACEHOLDER))

\* ------------------------------------------------------------- the codec
\* the three shapes the extractors know
IsS3Uri(u) == Len(u) >= 3 /\ u[1] = "s3:" /\ u[2] = ""

IsCdnUrl(u) == IsPrefix(S3_CDN_URL, u)

IsAwsUrl(u) == \E i \in 1..Len(u) : IsAwsHost(u[i]) /\ Len(u) > i /\ Tail_n(u, i) # <<"">>

Extractors == {"extractKeyFromUrl", "extractS3Key"}

\* C19: extractKeyFromUrl and extractS3Key return null for a null or empty
\* locator and for every locator of none of the three shapes, the
\* placeholder included; every call returns, with null or a tail of the
\* locator
C19_NoMatchIsNull ==
    call.fn \in Extractors =>
        /\ (IsFalsy(call.arg) \/ ~(IsS3Uri(call.arg) \/ IsCdnUrl(call.arg) \/ IsAwsUrl(call.arg)))
              => call.result = Null
        /\ \/ call.result = Null
           \/ \E n \in 0..Len(call.arg) : call.result = Tail_n(call.arg, n)

\* extractS3Key called on the placeholder returned null
C19_Witness ==
    /\ call.fn = "extractS3Key"
    /\ call.arg = PLACEHOLDER
    /\ call.result = Null

\* C20: the key extracted from the locator an upload returned, and from the
\* CDN and provider URLs of the same object, is the key the upload derived
C20_RoundTrip ==
    (call.fn = "extractKeyFromUrl" /\ call.key # Null) => call.result = call.key

\* the key of a content upload recovered from the provider URL of an object
\* whose file name itself holds the provider host
C20_Witness ==
    /\ call.fn = "extractKeyFromUrl"
    /\ call.key = <<"blogs", ToString(1), "bkt.s3.ap-south-1.amazonaws.com", "x">>
    /\ call.arg = ProviderUrl \o call.key
    /\ call.result = call.key

\* -------------------------------------------------------- stored locators
\* `s3://${S3_BUCKET}/${key}` for some key
IsCanonical(u) == IsPrefix(<<"s3:", "", S3_BUCKET>>, u) /\ Len(u) > 3

Asked(q) ==
    { i \in DOMAIN rows :
        /\ ~rows[i].deletedAt
        /\ rows[i].status = (IF q.statusParam = "" THEN "published" ELSE q.statusParam)
        /\ q.tags # {} => rows[i].tags \cap q.tags # {}
        /\ q.query # "" => rows[i].title = q.query }

\* how many rows of a set of n a page holds
PageSize(n, page, limit) ==
    IF n - (page - 1) * limit <= 0 THEN 0
    ELSE IF n - (page - 1) * limit < limit THEN n - (page - 1) * limit
    ELSE limit

C23_OnlyPublishedVisible ==
    \A r \in Slots :
        LET q == reqs[r]
        IN  (q.op \in ListOps \cup {"getBlogBySlug", "getBlogContent"}
                /\ Finished(q) /\ q.resp = 200) =>
              \A rec \in Records(q) : rec.status = "published"

\* ------------------------------------------------------ uniform not-found
\* the record a request names does not exist or is soft-deleted
Gone(id) == id \notin DOMAIN rows \/ rows[id].deletedAt

\* the record a request names, 0 when the slug it names has no row
Named(q) == IF q.op \in {"getBlogBySlug", "getBlogContent"} /\ q.slug # ""
            THEN findUniqueSlug(q.slug) ELSE q.blogId

GoneOps == {"getBlogById", "getBlogBySlug", "getBlogContent", "updateBlog", "deleteBlog"}

\* C24: a get, get-content, update or soft-delete request that names a
\* soft-deleted record gets the response it gets for a record that does not
\* exist: 404 with no data (500 when the lookup itself failed), in its first
\* step and without writing anything
C24_NotFoundUniform ==
    [][\A r \in Slots :
         LET q == reqs'[r]
         IN  (Arrived(r) /\ q.op \in GoneOps /\ Gone(Named(q))) =>
               /\ Finished(q)
               /\ q.data = NoRow
               /\ q.resp = (IF q.log[Len(q.log)].ok THEN 404 ELSE 500)
               /\ UNCHANGED <<rows, store, detached, issued>>
    ]_vars

\* an updateBlog naming the soft-deleted record 2 answered 404
C24_Witness ==
    \E r \in Slots :
        /\ reqs[r].op = "updateBlog" /\ Finished(reqs[r])
        /\ reqs[r].blogId = 2 /\ 2 \in DOMAIN rows /\ rows[2].deletedAt
        /\ reqs[r].resp = 404 /\ reqs[r].data = NoRow

ControllerOps == {"createBlog", "updateBlog", "deleteBlog", "permanentDeleteBlog"}

RouteOf(op) ==
    IF op = "createBlog" THEN "POST /"
    ELSE IF op = "updateBlog" THEN "PUT /:id"
    ELSE IF op = "deleteBlog" THEN "DELETE /:id"
    ELSE "DELETE /:id/permanent"

\* what the documentation of a route asks of a request, field by field
FieldsInRange(req) ==
    /\ req.titleLen = Absent \/ (req.titleLen >= 3 /\ req.titleLen <= 200)
    /\ req.readTime = Absent \/ req.readTime >= 1

ContentAccepted(req) ==
    /\ req.files.content # NoFile
    /\ req.files.content.mimetype = DOCX
    /\ req.files.content.ext = "docx"
    /\ req.files.content.size <= MAX_FILE_SIZE

Entitled(route, req) ==
    /\ req.apiKey = ADMIN_API_KEY
    /\ FieldsInRange(req)
    /\ IF route = "POST /"
       THEN req.titleLen # Absent /\ ContentAccepted(req)
       ELSE req.id >= 1

\* C25: on the mutating routes a controller begins only in a slot whose
\* middleware chain has just called next() on a request with the valid API
\* key, fields in range and (for create) an accepted content file; the step
\* in which the chain rejects a request writes neither rows nor objects, and
\* the rejected request is gone with the next step.
C25_ControllerOnlyAfterChecks ==
    [][\A r \in Slots :
         /\ (~Active(reqs[r]) /\ reqs'[r].op \in ControllerOps /\ reqs'[r] # reqs[r])
               => /\ reqs[r].pc = "done"
                  /\ reqs[r].op = RouteOf(reqs'[r].op)
                  /\ reqs[r].resp = next
                  /\ Entitled(reqs[r].op, reqs[r].request)
         /\ (reqs'[r].op \in Routes /\ reqs'[r] # reqs[r]
                /\ ~Entitled(reqs'[r].op, reqs'[r].request))
               => /\ reqs'[r].pc = "done"
                  /\ reqs'[r].resp \in {400, 401}
                  /\ rows' = rows /\ store' = store
         /\ (reqs[r].op \in Routes /\ reqs[r].resp # next)
               => (reqs'[r] = reqs[r] \/ reqs'[r].op \notin ControllerOps)]_vars

\* a create request with the valid key and no content file was answered 400
\* while the table and the store are as they were
C25_Witness ==
    \E r \in Slots :
        /\ reqs[r].op = "POST /"
        /\ reqs[r].request.apiKey = ADMIN_API_KEY
        /\ reqs[r].request.files.content = NoFile
        /\ reqs[r].resp = 400
        /\ rows # <<>>
        /\ nextId = 2

\* ------------------------------------------------- placeholder rows in reads
\* C26: no 200 of getBlogs, searchBlogsController, getLatestBlogs,
\* getPopularBlogs, getBlogById, getBlogBySlug or getBlogContent carries a
\* record whose stored contentUrl is the 'placeholder' of an unfinished or
\* failed createBlog
C26_NoPlaceholderInSuccess ==
    \A r \in Slots :
        LET q == reqs[r]
        IN  (q.op \in ListOps \cup SingleOps /\ Finished(q) /\ q.resp = 200) =>
              \A rec \in Records(q) : rows[rec.id].contentUrl # PLACEHOLDER

\* ------------------------------------------- two creates with the same slug
\* C27: of two concurrent createBlog requests with the same slug at most one
\* creates a row; once the winner's row exists the other request adds no row,
\* leaves the objects the winner's locators point to as they are, and,
\* unless one of its own uploads failed, is answered 409
C27_DuplicateSlugLoser ==
    [][/\ \A i, j \in DOMAIN rows' : rows'[i].slug = rows'[j].slug => i = j
       /\ \A r \in Slots :
            LET q == reqs[r]
            IN  (q.op = "createBlog" /\ Active(q) /\ SlugIndexed(q.slug)
                   /\ reqs'[r] # q)
                  => /\ rows' = rows
                     /\ \A i \in DOMAIN rows :
                          rows[i].slug = q.slug =>
                            \A u \in {rows[i].contentUrl, rows[i].coverImageUrl} :
                               (~IsFalsy(u) /\ extractKeyFromUrl(u) \in DOMAIN store)
                                 => /\ extractKeyFromUrl(u) \in DOMAIN store'
                                    /\ store'[extractKeyFromUrl(u)]
                                         = store[extractKeyFromUrl(u)]
                     /\ (/\ Finished(reqs'[r])
                         /\ \A n \in 1..Len(reqs'[r].log) :
                               reqs'[r].log[n].ok \/ reqs'[r].log[n].op = "create")
                          => reqs'[r].resp = 409]_vars

\* ------------------------------------------------ views and failed reads
\* C28: a getBlogContent that ends with an error response does not change
\* views: when the only request so far is a getBlogContent that was answered
\* with an error, the next step leaves every row as it is
C28_ErrorReadsDoNotCount ==
    [][(/\ started = 1
        /\ \E r \in Slots :
             /\ reqs[r].op = "getBlogContent"
             /\ Finished(reqs[r])
             /\ reqs[r].resp # 200)
          => rows' = rows]_vars

\* ------------------------------------------------- frame of a soft delete
\* C29: once deletedAt of a record is set, no step other than one of a
\* permanentDeleteBlog changes its row or the objects its locators point to
C29_SoftDeletedIsFrozen ==
    [][\A id \in DOMAIN rows :
         (/\ rows[id].deletedAt
          /\ ~\E r \in Slots : /\ reqs'[r].op = "permanentDeleteBlog"
                               /\ reqs'[r] # reqs[r])
           => /\ id \in DOMAIN rows'
              /\ rows'[id] = rows[id]
              /\ \A u \in {rows[id].contentUrl, rows[id].coverImageUrl} :
                   (~IsFalsy(u) /\ extractKeyFromUrl(u) \in DOMAIN store)
                     => /\ extractKeyFromUrl(u) \in DOMAIN store'
                        /\ store'[extractKeyFromUrl(u)] = store[extractKeyFromUrl(u)]]_vars

\* ------------------------------------------- two replacements of one slot
\* C30: when two overlapping updateBlog requests that replace the same slot
\* of the same record have both answered 200, none of their store or table
\* calls having failed, the record's locator of that slot resolves to an
\* object in the blob store.  The first to answer is seen finished before the
\* step in which the second one answers.
C30_ConcurrentReplaceKeepsObject ==
    [][\A a, b \in Slots, slot \in SlotNames :
         LET qa == reqs[a]
             qb == reqs'[b]
         IN  (/\ a # b
              /\ qa.op = "updateBlog" /\ Finished(qa) /\ qa.resp = 200
              /\ Supplied(qa, slot)
              /\ \A n \in 1..Len(qa.log) : qa.log[n].ok
              /\ Active(reqs[b])
              /\ qb.op = "updateBlog" /\ Finished(qb) /\ qb.resp = 200
              /\ Supplied(qb, slot)
              /\ \A n \in 1..Len(qb.log) : qb.log[n].ok
              /\ qb.blogId = qa.blogId
              /\ qa.blogId \in DOMAIN rows')
               => LET u == IF slot = "content" THEN rows'[qa.blogId].contentUrl
                           ELSE rows'[qa.blogId].coverImageUrl
                  IN  /\ ~IsFalsy(extractKeyFromUrl(u))
                      /\ fileExists(store', extractKeyFromUrl(u))]_vars

=============================================================================
